---------------------------- MODULE Spec2Model ----------------------------
(***************************************************************************)
(* Model of three parts of the repository:                                 *)
(*  - the SAM4L PDCA DMA driver (chips/sam4l/src/dma.rs): the 16 DMA       *)
(*    channels, the shared NUM_ENABLED counter gating the PDCA clocks, the *)
(*    per-channel transfer operations together with the PDCA hardware's    *)
(*    side of the register contract, and the DMAPeripheral tags;           *)
(*  - the driver dispatch of the nrf52dk board (boards/nrf52dk/src/        *)
(*    main.rs): Platform::with_driver;                                     *)
(*  - the image builder elf2tbf (userland/tools/elf2tbf/src/main.rs):      *)
(*    do_work's layout of a TBF image and the values of its headers.       *)
(***************************************************************************)
EXTENDS Integers, Naturals, Sequences, FiniteSets, TLC

(***************************************************************************)
(* Program constants                                                       *)
(***************************************************************************)
\* TransferCounter::TCV is NUMBITS(16).
TCV_NUMBITS == 16

(***************************************************************************)
(* Bounds of the model                                                     *)
(***************************************************************************)
\* How many of the 16 entries of DMA_CHANNELS (DMAChannel00 ..) are modelled.
NumChans == 3
\* Distinct buffers (identified by their address) the callers own at boot.
NumBufs == 2
\* Longest buffer, in bytes, handed to prepare_xfer in Spec.
MaxBufLen == 2
\* Largest len argument handed to prepare_xfer in Spec.
MaxLen == 1
\* Longest buffer and largest len argument in SpecClamp.
MaxClampBufLen == 100
MaxClampLen == 100

Pow2(n) == 2 ^ n
Min(a, b) == IF a < b THEN a ELSE b

Channels == 0 .. (NumChans - 1)
\* The channel the transfer specification drives.
XferChans == {0}
\* Option<&'static DMAClient>: 0 is None, 1 the client the capsule installs.
Clients == {1}
\* DMAWidth as u8.
Width8Bit == 0
Width16Bit == 1
Width32Bit == 2
DMAWidth == {Width8Bit, Width16Bit, Width32Bit}
\* Two of the DMAPeripheral tags: USART0_RX = 0 (also the reset value of PSR)
\* and USART0_TX = 18.
USART0_RX == 0
USART0_TX == 18
Pids == {USART0_RX, USART0_TX}
Ints == {"TERR", "TRC", "RCZ"}

\* A &'static mut [u8]: the address of its first byte and its length.
\* addr 0 stands for the empty TakeCell / Option::None.
NoBuf == [addr |-> 0, len |-> 0]
Bufs == [addr : 1 .. NumBufs, len : 0 .. MaxBufLen]

VARIABLES
    DMA_CHANNELS,   \* channel number -> DMAChannel {registers, client, width, enabled, buffer}
    NUM_ENABLED,    \* the shared static counter (a usize; a value below 0
                    \* stands for the wrapped result of an underflow)
    pm_clock,       \* the two PDCA clock lines of the power manager
    panicked,       \* the kernel has panicked (index out of bounds)
    callers,        \* addresses of the buffers currently owned by callers
    hist,           \* per channel: history of submissions and reclaims
    main            \* the enable()/disable() call the main context is inside of

vars == <<DMA_CHANNELS, NUM_ENABLED, pm_clock, panicked, callers, hist, main>>

(***************************************************************************)
(* Registers                                                               *)
(***************************************************************************)
\* Reset state of one channel's register block.
ResetRegisters ==
    [mar |-> 0, psr |-> USART0_RX, tcr |-> 0, marr |-> 0, tcrr |-> 0,
     ten |-> FALSE, mr |-> 0, imr |-> {}]

\* FieldValue for TransferCounter::TCV: the value masked to the field width.
TCV_val(n) == n % Pow2(TCV_NUMBITS)

\* When TCR is zero and a reload value is pending, the hardware copies
\* MARR/TCRR into MAR/TCR and clears TCRR.
hw_reload(r) ==
    IF r.tcr = 0 /\ r.tcrr # 0
    THEN [r EXCEPT !.mar = r.marr, !.tcr = r.tcrr, !.tcrr = 0]
    ELSE r

\* IDR: writing a one clears the bit in IMR.  IER: writing a one sets it.
idr_write(r, bits) == [r EXCEPT !.imr = @ \ bits]
ier_write(r, bits) == [r EXCEPT !.imr = @ \cup bits]
\* CR: TEN sets SR.TEN, TDIS clears it.
cr_write(r, bit) ==
    CASE bit = "TEN" -> [r EXCEPT !.ten = TRUE]
      [] bit = "TDIS" -> [r EXCEPT !.ten = FALSE]
      [] OTHER -> r
mr_write(r, size) == [r EXCEPT !.mr = size % 4]
psr_set(r, pid) == [r EXCEPT !.psr = pid]
marr_write(r, addr) == hw_reload([r EXCEPT !.marr = addr])
tcrr_write(r, n) == hw_reload([r EXCEPT !.tcrr = TCV_val(n)])
tcr_write(r, n) == hw_reload([r EXCEPT !.tcr = TCV_val(n)])

\* ISR.TRC: transfer complete, TCR and TCRR are both zero.
isr_TRC(r) == r.tcr = 0 /\ r.tcrr = 0
\* The channel's interrupt line is raised: an armed interrupt whose status is set.
irq_pending(r) == "TRC" \in r.imr /\ isr_TRC(r)

(***************************************************************************)
(* Power manager                                                           *)
(***************************************************************************)
ClocksOff == [HSB |-> FALSE, PBB |-> FALSE]
enable_clock(p, line) == [p EXCEPT ![line] = TRUE]
disable_clock(p, line) == [p EXCEPT ![line] = FALSE]
enable_pdca(p) == enable_clock(enable_clock(p, "HSB"), "PBB")
disable_pdca(p) == disable_clock(disable_clock(p, "HSB"), "PBB")
ClockRunning == pm_clock.HSB /\ pm_clock.PBB

(***************************************************************************)
(* State after construction                                                *)
(***************************************************************************)
\* DMAChannel::new
new ==
    [registers |-> ResetRegisters, client |-> 0, width |-> Width8Bit,
     enabled |-> FALSE, buffer |-> NoBuf]

\* submitted: the buffer of the most recent prepare_xfer; nret: how many
\* buffers abort_xfer returned since that submission (counted up to 2);
\* aborted: abort_xfer ran since the submission; pending: the buffers
\* (addresses) of the transfers submitted, oldest first, that were neither
\* aborted nor reported to the client by xfer_done; client: the client of the
\* most recent initialize; pid: the peripheral of the most recent
\* prepare_xfer (the reset value of PSR before the first one); done: the
\* xfer_done calls the interrupt handler made since the last prepare_xfer or
\* abort_xfer call.
NoHist ==
    [submitted |-> NoBuf, nret |-> 0, aborted |-> FALSE, pending |-> <<>>,
     client |-> 0, pid |-> ResetRegisters.psr, done |-> <<>>]
Idle == [op |-> "idle", ch |-> 0, at |-> 0, num_enabled |-> 0]

Init ==
    /\ DMA_CHANNELS = [c \in Channels |-> new]
    /\ NUM_ENABLED = 0
    /\ pm_clock = ClocksOff
    /\ panicked = FALSE
    /\ callers = 1 .. NumBufs
    /\ hist = [c \in Channels |-> NoHist]
    /\ main = Idle

(***************************************************************************)
(* DMAChannel operations, each run to completion.  enable and disable are  *)
(* also what an interrupt handler runs while the main context is inside a  *)
(* call (SpecPreempt); the other specifications leave the main context     *)
(* idle.                                                                   *)
(***************************************************************************)
initialize(c, cl, w) ==
    /\ ~panicked
    /\ main.op = "idle"
    /\ DMA_CHANNELS' = [DMA_CHANNELS EXCEPT ![c].client = cl, ![c].width = w]
    /\ hist' = [hist EXCEPT ![c].client = cl]
    /\ UNCHANGED <<NUM_ENABLED, pm_clock, panicked, callers, main>>

\* enable() that turns the clocks on only inside the counted branch.
enable_counted_only(c) ==
    /\ ~panicked
    /\ IF ~DMA_CHANNELS[c].enabled
       THEN LET num_enabled == NUM_ENABLED
            IN /\ NUM_ENABLED' = NUM_ENABLED + 1
               /\ pm_clock' = IF num_enabled = 1 THEN enable_pdca(pm_clock)
                                                 ELSE pm_clock
               /\ DMA_CHANNELS' =
                    [DMA_CHANNELS EXCEPT
                       ![c].registers = idr_write(@, Ints),
                       ![c].enabled = TRUE]
       ELSE UNCHANGED <<NUM_ENABLED, pm_clock, DMA_CHANNELS>>
    /\ UNCHANGED <<panicked, callers, hist, main>>

\* enable() without the `if !self.enabled.get()` test.
enable_unguarded(c) ==
    /\ ~panicked
    /\ NUM_ENABLED' = NUM_ENABLED + 1
    /\ pm_clock' = enable_pdca(pm_clock)
    /\ DMA_CHANNELS' =
         [DMA_CHANNELS EXCEPT
            ![c].registers = idr_write(@, Ints),
            ![c].enabled = TRUE]
    /\ UNCHANGED <<panicked, callers, hist, main>>

enable(c) ==
    /\ ~panicked
    /\ LET clk == enable_pdca(pm_clock)
       IN IF ~DMA_CHANNELS[c].enabled
          THEN LET num_enabled == NUM_ENABLED   \* atomic_xadd returns the old value
               IN /\ NUM_ENABLED' = NUM_ENABLED + 1
                  /\ pm_clock' = IF num_enabled = 1 THEN enable_pdca(clk) ELSE clk
                  /\ DMA_CHANNELS' =
                       [DMA_CHANNELS EXCEPT
                          ![c].registers = idr_write(@, Ints),
                          ![c].enabled = TRUE]
          ELSE /\ pm_clock' = clk
               /\ UNCHANGED <<NUM_ENABLED, DMA_CHANNELS>>
    /\ UNCHANGED <<panicked, callers, hist, main>>

disable(c) ==
    /\ ~panicked
    /\ IF DMA_CHANNELS[c].enabled
       THEN LET num_enabled == NUM_ENABLED   \* atomic_xsub returns the old value
            IN /\ NUM_ENABLED' = NUM_ENABLED - 1
               /\ pm_clock' = IF num_enabled = 1 THEN disable_pdca(pm_clock)
                                                 ELSE pm_clock
               /\ DMA_CHANNELS' =
                    [DMA_CHANNELS EXCEPT
                       ![c].registers = cr_write(@, "TDIS"),
                       ![c].enabled = FALSE]
       ELSE UNCHANGED <<NUM_ENABLED, pm_clock, DMA_CHANNELS>>
    /\ UNCHANGED <<panicked, callers, hist, main>>

\* Bytes per transfer unit: the divisor prepare_xfer matches on the width.
width_bytes(w) ==
    CASE w = Width8Bit -> 1
      [] w = Width16Bit -> 2
      [] w = Width32Bit -> 4

\* The channel after prepare_xfer(pid, buf, len) up to the evaluation of
\* `&buf[0]`: MR and PSR are written.
prepare_head(ch, pid) ==
    [ch EXCEPT !.registers = psr_set(mr_write(@, ch.width), pid)]

\* prepare_xfer that clamps len to the buffer's length in bytes, whatever the
\* width.
prepare_xfer_bytes_clamp(ch, pid, buf, len) ==
    LET maxlen == buf.len
        len1 == Min(len, maxlen)
        head == prepare_head(ch, pid)
    IN [head EXCEPT
          !.registers = ier_write(tcrr_write(marr_write(@, buf.addr), len1), {"TRC"}),
          !.buffer = buf]

\* prepare_xfer that does not arm the completion interrupt.
prepare_xfer_unarmed(ch, pid, buf, len) ==
    LET maxlen == buf.len \div width_bytes(ch.width)
        len1 == Min(len, maxlen)
        head == prepare_head(ch, pid)
    IN [head EXCEPT
          !.registers = tcrr_write(marr_write(@, buf.addr), len1),
          !.buffer = buf]

\* The channel after a prepare_xfer(pid, buf, len) that ran to its end.
prepare_xfer_ch(ch, pid, buf, len) ==
    LET maxlen == buf.len \div width_bytes(ch.width)
        len1 == Min(len, maxlen)
        head == prepare_head(ch, pid)
    IN [head EXCEPT
          !.registers = ier_write(tcrr_write(marr_write(@, buf.addr), len1), {"TRC"}),
          !.buffer = buf]

\* The channel after start_xfer().
start_xfer_ch(ch) == [ch EXCEPT !.registers = cr_write(@, "TEN")]

\* abort_xfer that hands out the buffer without emptying the slot.
abort_xfer_keeps_slot(ch) ==
    [ch EXCEPT !.registers = tcr_write(idr_write(@, Ints), 0)]

\* The channel after abort_xfer(); the call returns ch.buffer.
abort_xfer_ch(ch) ==
    [ch EXCEPT !.registers = tcr_write(idr_write(@, Ints), 0),
               !.buffer = NoBuf]

\* History kept for a submission / for a reclaim.
hist_submit(h, buf) ==
    [h EXCEPT !.submitted = buf, !.nret = 0, !.aborted = FALSE,
              !.pending = Append(@, buf.addr), !.done = <<>>]
hist_abort(h, ret) ==
    [h EXCEPT !.nret = IF ret # NoBuf THEN Min(@ + 1, 2) ELSE @,
              !.aborted = TRUE, !.pending = <<>>, !.done = <<>>]
\* History kept for the handler's xfer_done calls: a call reports the oldest
\* pending transfer.
hist_done(h, calls) ==
    [h EXCEPT !.pending = IF @ = <<>> \/ calls = <<>> THEN @ ELSE Tail(@),
              !.done = calls]
\* The caller gets back the buffer abort_xfer returns.
give_back(owned, buf) == IF buf # NoBuf THEN owned \cup {buf.addr} ELSE owned

\* prepare_xfer / do_xfer share everything but the trailing start_xfer().
\* The caller moves a buffer it owns into the call; an empty buffer makes
\* `&buf[0]` panic after MR and PSR were written.
submit(c, pid, buf, len, start) ==
    /\ ~panicked
    /\ buf.addr \in callers
    /\ callers' = callers \ {buf.addr}
    /\ IF buf.len = 0
       THEN /\ panicked' = TRUE
            /\ DMA_CHANNELS' =
                 [DMA_CHANNELS EXCEPT ![c] = prepare_head(@, pid)]
            /\ hist' = [hist EXCEPT ![c].pid = pid]
       ELSE /\ DMA_CHANNELS' =
                 [DMA_CHANNELS EXCEPT
                    ![c] = IF start THEN start_xfer_ch(prepare_xfer_ch(@, pid, buf, len))
                                    ELSE prepare_xfer_ch(@, pid, buf, len)]
            /\ hist' = [hist EXCEPT ![c] = [hist_submit(@, buf) EXCEPT !.pid = pid]]
            /\ UNCHANGED panicked
    /\ UNCHANGED <<NUM_ENABLED, pm_clock>>

prepare_xfer(c, pid, buf, len) ==
    /\ main.op = "idle"
    /\ submit(c, pid, buf, len, FALSE)
    /\ UNCHANGED main

do_xfer(c, pid, buf, len) ==
    /\ main.op = "idle"
    /\ submit(c, pid, buf, len, TRUE)
    /\ UNCHANGED main

start_xfer(c) ==
    /\ ~panicked
    /\ main.op = "idle"
    /\ DMA_CHANNELS' = [DMA_CHANNELS EXCEPT ![c] = start_xfer_ch(@)]
    /\ UNCHANGED <<NUM_ENABLED, pm_clock, panicked, callers, hist, main>>

abort_xfer(c) ==
    /\ ~panicked
    /\ main.op = "idle"
    /\ DMA_CHANNELS' = [DMA_CHANNELS EXCEPT ![c] = abort_xfer_ch(@)]
    /\ hist' = [hist EXCEPT ![c] = hist_abort(@, DMA_CHANNELS[c].buffer)]
    /\ callers' = give_back(callers, DMA_CHANNELS[c].buffer)
    /\ UNCHANGED <<NUM_ENABLED, pm_clock, panicked, main>>

\* transfer_counter() reads TCR.TCV.
transfer_counter(c) == TCV_val(DMA_CHANNELS[c].registers.tcr)

\* handle_interrupt that reports the reset value of PSR instead of reading
\* the register.
xfer_done_calls_reset_pid(ch) ==
    IF ch.client # 0
    THEN <<[client |-> ch.client, pid |-> ResetRegisters.psr]>>
    ELSE <<>>

\* The calls of xfer_done handle_interrupt makes on a channel: one, on the
\* installed client with the peripheral read from PSR, or none.
xfer_done_calls(ch) ==
    IF ch.client # 0
    THEN <<[client |-> ch.client, pid |-> ch.registers.psr]>>
    ELSE <<>>

\* handle_interrupt that leaves the channel's interrupts as they are.
handle_interrupt_unmasked(c) ==
    /\ ~panicked
    /\ ClockRunning
    /\ irq_pending(DMA_CHANNELS[c].registers)
    /\ LET calls == xfer_done_calls(DMA_CHANNELS[c])
       IN /\ hist' = [hist EXCEPT ![c] = hist_done(@, calls)]
          /\ UNCHANGED <<DMA_CHANNELS, callers>>
    /\ UNCHANGED <<NUM_ENABLED, pm_clock, panicked, main>>

\* handle_interrupt that hands the stored buffer to the client, emptying the
\* slot.
handle_interrupt_takes_buffer(ch) ==
    [ch EXCEPT !.registers = idr_write(@, Ints), !.buffer = NoBuf]

\* What handle_interrupt itself does to the channel before it calls the
\* client: it writes TERR, TRC and RCZ to IDR.
handle_interrupt_ch(ch) ==
    [ch EXCEPT !.registers = idr_write(@, Ints)]

\* handle_interrupt runs in the channel's interrupt handler: the channel's
\* interrupt line is raised.  It masks the interrupts, reads PSR and calls
\* the client's xfer_done, if a client is installed.  The client either
\* reclaims the buffer with abort_xfer() or leaves it in the channel.
handle_interrupt_at(c) ==
    /\ ~panicked
    /\ ClockRunning
    /\ irq_pending(DMA_CHANNELS[c].registers)
    /\ LET masked == handle_interrupt_ch(DMA_CHANNELS[c])
           calls == xfer_done_calls(masked)
       IN \E reclaim \in BOOLEAN :
            IF calls # <<>> /\ reclaim
            THEN /\ DMA_CHANNELS' = [DMA_CHANNELS EXCEPT ![c] = abort_xfer_ch(masked)]
                 /\ hist' = [hist EXCEPT
                      ![c] = [hist_abort(hist_done(@, calls), masked.buffer)
                                EXCEPT !.done = calls]]
                 /\ callers' = give_back(callers, masked.buffer)
            ELSE /\ DMA_CHANNELS' = [DMA_CHANNELS EXCEPT ![c] = masked]
                 /\ hist' = [hist EXCEPT ![c] = hist_done(@, calls)]
                 /\ UNCHANGED callers
    /\ UNCHANGED <<NUM_ENABLED, pm_clock, panicked, main>>

\* The handler run between two calls of the main context.
handle_interrupt(c) ==
    /\ main.op = "idle"
    /\ handle_interrupt_at(c)

(***************************************************************************)
(* The PDCA hardware: an enabled channel with a non-zero count moves one   *)
(* unit between the peripheral and memory at MAR and counts TCR down; at   *)
(* zero it reloads from MARR/TCRR, or the transfer is complete.            *)
(***************************************************************************)
HwTransfer(c) ==
    /\ ~panicked
    /\ ClockRunning
    /\ DMA_CHANNELS[c].registers.ten
    /\ DMA_CHANNELS[c].registers.tcr > 0
    /\ DMA_CHANNELS' =
         [DMA_CHANNELS EXCEPT ![c].registers = hw_reload([@ EXCEPT !.tcr = @ - 1])]
    /\ UNCHANGED <<NUM_ENABLED, pm_clock, panicked, callers, hist, main>>

(***************************************************************************)
(* Specification of the clock refcount: initialize, enable and disable     *)
(* called, each to completion, on any of the modelled channels.            *)
(***************************************************************************)
NextClock ==
    \/ \E c \in Channels, cl \in Clients, w \in DMAWidth : initialize(c, cl, w)
    \/ \E c \in Channels : enable(c)
    \/ \E c \in Channels : disable(c)

SpecClock == Init /\ [][NextClock]_vars

EnabledChans == {c \in Channels : DMA_CHANNELS[c].enabled}

\* C1: after any sequence of completed enable()/disable() calls both PDCA
\* clock lines (HSB and PBB) are on if and only if NUM_ENABLED > 0.
C1_ClockIffRefcount ==
    /\ pm_clock.HSB <=> NUM_ENABLED > 0
    /\ pm_clock.PBB <=> NUM_ENABLED > 0

\* Two channels have been enabled one after the other and the clock is on.
C1_Witness ==
    /\ NUM_ENABLED = 2
    /\ pm_clock.HSB /\ pm_clock.PBB

\* C2: after any sequence of completed enable()/disable() calls NUM_ENABLED
\* is the number of channels whose enabled flag is true; an enabled channel
\* implies NUM_ENABLED > 0 and a running clock; NUM_ENABLED never goes
\* below zero.
C2_RefcountCountsEnabled ==
    /\ NUM_ENABLED = Cardinality(EnabledChans)
    /\ NUM_ENABLED >= 0
    /\ \A c \in Channels :
          DMA_CHANNELS[c].enabled => NUM_ENABLED > 0 /\ ClockRunning

\* Every modelled channel is enabled at once.
C2_Witness == NUM_ENABLED = NumChans /\ \A c \in Channels : DMA_CHANNELS[c].enabled

(***************************************************************************)
(* enable() and disable() statement by statement, in the main context,     *)
(* with interrupt handlers that call enable()/disable() on another channel *)
(* between any two statements.  A handler runs to completion.              *)
(***************************************************************************)
call(c, op) ==
    /\ ~panicked
    /\ main.op = "idle"
    /\ main' = [op |-> op, ch |-> c, at |-> 1, num_enabled |-> 0]
    /\ UNCHANGED <<DMA_CHANNELS, NUM_ENABLED, pm_clock, panicked, callers, hist>>

enable_step ==
    /\ main.op = "enable"
    /\ LET c == main.ch
       IN CASE main.at = 1 ->      \* pm::enable_clock(HSB)
                 /\ pm_clock' = enable_clock(pm_clock, "HSB")
                 /\ main' = [main EXCEPT !.at = 2]
                 /\ UNCHANGED <<DMA_CHANNELS, NUM_ENABLED>>
            [] main.at = 2 ->      \* pm::enable_clock(PBB)
                 /\ pm_clock' = enable_clock(pm_clock, "PBB")
                 /\ main' = [main EXCEPT !.at = 3]
                 /\ UNCHANGED <<DMA_CHANNELS, NUM_ENABLED>>
            [] main.at = 3 ->      \* if !self.enabled.get()
                 /\ main' = IF ~DMA_CHANNELS[c].enabled
                            THEN [main EXCEPT !.at = 4] ELSE Idle
                 /\ UNCHANGED <<DMA_CHANNELS, NUM_ENABLED, pm_clock>>
            [] main.at = 4 ->      \* atomic_xadd(&mut NUM_ENABLED, 1)
                 /\ NUM_ENABLED' = NUM_ENABLED + 1
                 /\ main' = [main EXCEPT !.at = 5, !.num_enabled = NUM_ENABLED]
                 /\ UNCHANGED <<DMA_CHANNELS, pm_clock>>
            [] main.at = 5 ->      \* if num_enabled == 1 { enable_clock x 2 }
                 /\ pm_clock' = IF main.num_enabled = 1
                                THEN enable_pdca(pm_clock) ELSE pm_clock
                 /\ main' = [main EXCEPT !.at = 6]
                 /\ UNCHANGED <<DMA_CHANNELS, NUM_ENABLED>>
            [] main.at = 6 ->      \* registers.idr.write(..)
                 /\ DMA_CHANNELS' =
                      [DMA_CHANNELS EXCEPT ![c].registers = idr_write(@, Ints)]
                 /\ main' = [main EXCEPT !.at = 7]
                 /\ UNCHANGED <<NUM_ENABLED, pm_clock>>
            [] main.at = 7 ->      \* self.enabled.set(true)
                 /\ DMA_CHANNELS' = [DMA_CHANNELS EXCEPT ![c].enabled = TRUE]
                 /\ main' = Idle
                 /\ UNCHANGED <<NUM_ENABLED, pm_clock>>
    /\ UNCHANGED <<panicked, callers, hist>>

disable_step ==
    /\ main.op = "disable"
    /\ LET c == main.ch
       IN CASE main.at = 1 ->      \* if self.enabled.get()
                 /\ main' = IF DMA_CHANNELS[c].enabled
                            THEN [main EXCEPT !.at = 2] ELSE Idle
                 /\ UNCHANGED <<DMA_CHANNELS, NUM_ENABLED, pm_clock>>
            [] main.at = 2 ->      \* atomic_xsub(&mut NUM_ENABLED, 1)
                 /\ NUM_ENABLED' = NUM_ENABLED - 1
                 /\ main' = [main EXCEPT !.at = 3, !.num_enabled = NUM_ENABLED]
                 /\ UNCHANGED <<DMA_CHANNELS, pm_clock>>
            [] main.at = 3 ->      \* if num_enabled == 1 { disable_clock(HSB)
                 /\ pm_clock' = IF main.num_enabled = 1
                                THEN disable_clock(pm_clock, "HSB") ELSE pm_clock
                 /\ main' = [main EXCEPT !.at = 4]
                 /\ UNCHANGED <<DMA_CHANNELS, NUM_ENABLED>>
            [] main.at = 4 ->      \*                      disable_clock(PBB) }
                 /\ pm_clock' = IF main.num_enabled = 1
                                THEN disable_clock(pm_clock, "PBB") ELSE pm_clock
                 /\ main' = [main EXCEPT !.at = 5]
                 /\ UNCHANGED <<DMA_CHANNELS, NUM_ENABLED>>
            [] main.at = 5 ->      \* registers.cr.write(TDIS)
                 /\ DMA_CHANNELS' =
                      [DMA_CHANNELS EXCEPT ![c].registers = cr_write(@, "TDIS")]
                 /\ main' = [main EXCEPT !.at = 6]
                 /\ UNCHANGED <<NUM_ENABLED, pm_clock>>
            [] main.at = 6 ->      \* self.enabled.set(false)
                 /\ DMA_CHANNELS' = [DMA_CHANNELS EXCEPT ![c].enabled = FALSE]
                 /\ main' = Idle
                 /\ UNCHANGED <<NUM_ENABLED, pm_clock>>
    /\ UNCHANGED <<panicked, callers, hist>>

\* An interrupt handler may touch any channel but the one the main context
\* is operating on.
handler_may(c) == main.op = "idle" \/ c # main.ch

NextPreempt ==
    \/ \E c \in Channels : call(c, "enable")
    \/ \E c \in Channels : call(c, "disable")
    \/ enable_step
    \/ disable_step
    \/ \E c \in Channels : handler_may(c) /\ enable(c)
    \/ \E c \in Channels : handler_may(c) /\ disable(c)

SpecPreempt == Init /\ [][NextPreempt]_vars

\* C3: enable()/disable() are atomic with respect to interrupt preemption:
\* once the preempted call and the handler's call have both completed, the
\* PDCA clock is on if and only if NUM_ENABLED > 0, and every channel with
\* enabled = true has a running clock.
C3_AtomicUnderPreemption ==
    main.op = "idle" =>
        /\ ClockRunning <=> NUM_ENABLED > 0
        /\ \A c \in Channels : DMA_CHANNELS[c].enabled => ClockRunning

(***************************************************************************)
(* Specification of a channel: every operation of the driver, each to      *)
(* completion, and the hardware's progress, on the driven channel.         *)
(***************************************************************************)
Next ==
    \/ \E c \in XferChans, cl \in Clients, w \in DMAWidth : initialize(c, cl, w)
    \/ \E c \in XferChans : enable(c)
    \/ \E c \in XferChans : disable(c)
    \/ \E c \in XferChans, pid \in Pids, buf \in Bufs, len \in 0 .. MaxLen :
          prepare_xfer(c, pid, buf, len)
    \/ \E c \in XferChans : start_xfer(c)
    \/ \E c \in XferChans, pid \in Pids, buf \in Bufs, len \in 0 .. MaxLen :
          do_xfer(c, pid, buf, len)
    \/ \E c \in XferChans : abort_xfer(c)
    \/ \E c \in XferChans : handle_interrupt(c)
    \/ \E c \in XferChans : HwTransfer(c)

Spec == Init /\ [][Next]_vars

\* C4: a submitted buffer is returned exactly once.  The slot holds nothing
\* or the buffer of the most recent prepare_xfer/do_xfer; it holds that
\* buffer until abort_xfer runs; abort_xfer leaves the slot empty; at most one
\* buffer is returned per submission, and the buffer returned (it is back
\* with the callers) is the one submitted.  (A panicked kernel runs no
\* further call.)
C4_ReturnedExactlyOnce ==
    \A c \in Channels :
        LET ch == DMA_CHANNELS[c]
            h == hist[c]
        IN panicked \/
           /\ ch.buffer \in {NoBuf, h.submitted}
           /\ (h.submitted # NoBuf /\ ~h.aborted) => ch.buffer = h.submitted
           /\ h.aborted => ch.buffer = NoBuf
           /\ h.nret <= 1
           /\ h.nret = 1 => h.submitted.addr \in callers
           /\ ch.buffer # NoBuf => ch.buffer.addr \notin callers

\* do_xfer, completion and handle_interrupt have run and the client has
\* reclaimed the buffer: the slot is empty and the buffer is with the caller.
C4_Witness ==
    \E c \in XferChans :
        /\ hist[c].nret = 1
        /\ hist[c].submitted.addr \in callers
        /\ DMA_CHANNELS[c].buffer = NoBuf
        /\ DMA_CHANNELS[c].registers.ten
        /\ DMA_CHANNELS[c].registers.mar = hist[c].submitted.addr
        /\ DMA_CHANNELS[c].client # 0

\* The channel is enabled and the PDCA clock runs: what prepare_xfer expects
\* of its caller.
Operational(c) == DMA_CHANNELS[c].enabled /\ ClockRunning

\* C5: after abort_xfer() the (enabled) channel is idle: transfer_counter()
\* reads 0 and keeps reading 0 until the next prepare (no reload from a
\* pending TCRR/MARR, no continuation of the aborted transfer).
C5_AbortLeavesCounterZero ==
    \A c \in Channels :
        (Operational(c) /\ hist[c].aborted) => transfer_counter(c) = 0

\* C6: a prepare_xfer/do_xfer on an (enabled) channel whose buffer slot is
\* occupied is rejected and leaves the channel (slot and registers) untouched.
C6_BusyRejected ==
    [][\A c \in XferChans, pid \in Pids, buf \in Bufs, len \in 0 .. MaxLen :
          (/\ Operational(c)
           /\ DMA_CHANNELS[c].buffer # NoBuf
           /\ (prepare_xfer(c, pid, buf, len) \/ do_xfer(c, pid, buf, len)))
          => DMA_CHANNELS'[c] = DMA_CHANNELS[c]]_vars

\* C7: a zero-length transfer (len = 0, or a buffer shorter than one unit)
\* submitted to an (enabled) channel changes no channel state and does not
\* bring the kernel down.
C7_ZeroLengthRejected ==
    [][\A c \in XferChans, pid \in Pids, buf \in Bufs, len \in 0 .. MaxLen :
          (/\ Operational(c)
           /\ Min(len, buf.len \div width_bytes(DMA_CHANNELS[c].width)) = 0
           /\ (prepare_xfer(c, pid, buf, len) \/ do_xfer(c, pid, buf, len)))
          => DMA_CHANNELS'[c] = DMA_CHANNELS[c] /\ ~panicked']_vars

\* A transfer is armed or running on the channel: units remain in TCR or TCRR.
InFlight(c) ==
    \/ DMA_CHANNELS[c].registers.tcr > 0
    \/ DMA_CHANNELS[c].registers.tcrr > 0
\* The submitted transfer is complete (ISR.TRC) and nobody reclaimed it.
CompletedUnreclaimed(c) ==
    /\ hist[c].submitted # NoBuf
    /\ ~hist[c].aborted
    /\ isr_TRC(DMA_CHANNELS[c].registers)

\* C9: the buffer slot of an (enabled) channel is occupied if and only if a
\* transfer on the channel is in flight or has completed without its buffer
\* being reclaimed.
C9_SlotIffTransfer ==
    \A c \in Channels :
        Operational(c) =>
            (DMA_CHANNELS[c].buffer # NoBuf
                <=> (InFlight(c) \/ CompletedUnreclaimed(c)))

\* C10: whenever the hardware of an (enabled) channel can still access a
\* buffer's memory (transfer enabled with a non-zero TCR at MAR, or a
\* non-zero TCRR pending at MARR), that buffer is the one held in the
\* channel's slot.
C10_HardwareTargetIsHeld ==
    \A c \in Channels :
        LET r == DMA_CHANNELS[c].registers
        IN Operational(c) =>
             /\ (r.ten /\ r.tcr > 0) => DMA_CHANNELS[c].buffer.addr = r.mar
             /\ r.tcrr > 0 => DMA_CHANNELS[c].buffer.addr = r.marr

\* A step of prepare_xfer / do_xfer on the channel: a buffer passes from the
\* callers to the channel and is recorded as the one submitted.
SubmissionStep(c) ==
    /\ hist'[c].submitted.addr \in callers \ callers'
    /\ DMA_CHANNELS'[c].buffer = hist'[c].submitted

\* Bytes per unit of the SIZE mode programmed in MR: Byte, Halfword, Word.
size_bytes(mr) == Pow2(mr)

\* C28: the DMA never runs past the end of the submitted buffer: the count a
\* prepare_xfer programs (in TCRR, or taken over into TCR with MAR at the
\* buffer) times the bytes per unit of the SIZE mode in MR is at most
\* buf.len(), and this stays so while the hardware works on the buffer,
\* whatever is called on the (enabled) channel after the prepare
\* (initialize() changing the width included).
C28_CountWithinBuffer ==
    [][\A c \in XferChans :
          LET r == DMA_CHANNELS'[c].registers
              buf == hist[c].submitted
              sub == hist'[c].submitted
          IN Operational(c) =>
             /\ SubmissionStep(c) =>
                  /\ r.marr = sub.addr
                  /\ r.tcrr * size_bytes(r.mr) <= sub.len
                  /\ r.mar = sub.addr => r.tcr * size_bytes(r.mr) <= sub.len
             /\ (buf # NoBuf /\ (SubmissionStep(c) => sub.addr # buf.addr)) =>
                  /\ (DMA_CHANNELS[c].registers.mar = buf.addr /\ r.mar = buf.addr)
                        => r.tcr * size_bytes(r.mr) <= buf.len
                  /\ r.marr = buf.addr
                        => r.tcrr * size_bytes(r.mr) <= buf.len]_vars

\* C27: between two consecutive prepare_xfer calls on a channel the
\* transfer-complete interrupt is serviced at most once: handle_interrupt
\* masks TERR, TRC and RCZ and only prepare_xfer arms TRC again, so the
\* handler runs only when no xfer_done was delivered since the last
\* prepare_xfer, once it has run no interrupt of the channel is armed, and
\* abort_xfer() leaves no interrupt armed.
C27_ServicedAtMostOnce ==
    [][\A c \in XferChans :
          /\ handle_interrupt(c) =>
                /\ hist[c].done = <<>>
                /\ DMA_CHANNELS'[c].registers.imr = {}
                /\ ~irq_pending(DMA_CHANNELS'[c].registers)
          /\ abort_xfer(c) => DMA_CHANNELS'[c].registers.imr = {}
          /\ SubmissionStep(c)
               \/ DMA_CHANNELS'[c].registers.imr \subseteq DMA_CHANNELS[c].registers.imr]_vars

\* xfer_done has been delivered for a finished transfer whose buffer the
\* client left in the channel: the transfer-complete status is still set,
\* and no interrupt is armed.
C27_Witness ==
    \E c \in XferChans :
        /\ hist[c].done # <<>>
        /\ DMA_CHANNELS[c].buffer # NoBuf
        /\ DMA_CHANNELS[c].registers.ten
        /\ isr_TRC(DMA_CHANNELS[c].registers)
        /\ DMA_CHANNELS[c].registers.mar = DMA_CHANNELS[c].buffer.addr
        /\ DMA_CHANNELS[c].registers.imr = {}

Active(c) ==
    /\ DMA_CHANNELS[c].registers.ten
    /\ DMA_CHANNELS[c].registers.tcr > 0
    /\ DMA_CHANNELS[c].buffer # NoBuf

\* C11: disable() on a channel whose transfer is Active first aborts it: when
\* disable() returns the channel's interrupts are masked, its transfer
\* counter is zero, the buffer has left the slot and is back with the caller,
\* the transfer is disabled, the clock reference released and enabled false.
C11_DisableAbortsActive ==
    [][\A c \in XferChans :
          (Operational(c) /\ Active(c) /\ disable(c))
          => /\ DMA_CHANNELS'[c].registers.imr = {}
             /\ TCV_val(DMA_CHANNELS'[c].registers.tcr) = 0
             /\ DMA_CHANNELS'[c].buffer = NoBuf
             /\ DMA_CHANNELS[c].buffer.addr \in callers'
             /\ ~DMA_CHANNELS'[c].registers.ten
             /\ NUM_ENABLED' = NUM_ENABLED - 1
             /\ ~DMA_CHANNELS'[c].enabled]_vars

(***************************************************************************)
(* Specification of enable() as a call of the main context: the call and   *)
(* its statements, between calls disable(), do_xfer and the interrupt      *)
(* handler on the driven channel, and the hardware's progress.             *)
(***************************************************************************)
NextEnable ==
    \/ \E c \in XferChans : call(c, "enable")
    \/ enable_step
    \/ \E c \in XferChans : main.op = "idle" /\ disable(c)
    \/ \E c \in XferChans, pid \in Pids, buf \in Bufs, len \in 0 .. MaxLen :
          do_xfer(c, pid, buf, len)
    \/ \E c \in XferChans : handle_interrupt(c)
    \/ \E c \in XferChans : HwTransfer(c)

SpecEnable == Init /\ [][NextEnable]_vars

\* The step with which the enable() call of the main context returns.
ReturnsFromEnable == main.op = "enable" /\ main'.op = "idle"

\* C13: enable(), called in any channel state (also on a channel that is
\* already enabled and has a transfer in flight), leaves the clock running,
\* all three channel interrupts masked and enabled = true.
C13_EnableMasksInAnyState ==
    [][ReturnsFromEnable =>
          /\ ClockRunning'
          /\ DMA_CHANNELS'[main.ch].registers.imr = {}
          /\ DMA_CHANNELS'[main.ch].enabled]_vars

(***************************************************************************)
(* Specification of the order of completions: after initialize and enable, *)
(* any sequence of do_xfer, hardware progress, handle_interrupt and        *)
(* abort_xfer on the driven channel.                                       *)
(***************************************************************************)
NextOrder ==
    \/ \E c \in XferChans, cl \in Clients, w \in DMAWidth : initialize(c, cl, w)
    \/ \E c \in XferChans : enable(c)
    \/ \E c \in XferChans, pid \in Pids, buf \in Bufs, len \in 0 .. MaxLen :
          do_xfer(c, pid, buf, len)
    \/ \E c \in XferChans : HwTransfer(c)
    \/ \E c \in XferChans : handle_interrupt(c)
    \/ \E c \in XferChans : abort_xfer(c)

SpecOrder == Init /\ [][NextOrder]_vars

\* C12: within a channel, completions are delivered in the order the transfers
\* were started: each xfer_done the interrupt handler delivers is for the
\* oldest transfer started, not aborted and not yet reported (the buffer the
\* client finds in the channel is that transfer's), and never for a transfer
\* that was not started.
C12_CompletionsInStartOrder ==
    [][\A c \in XferChans :
          (handle_interrupt(c) /\ DMA_CHANNELS[c].client # 0)
          => /\ hist[c].pending # <<>>
             /\ Head(hist[c].pending) = DMA_CHANNELS[c].buffer.addr]_vars

(***************************************************************************)
(* Specification of enable() and disable() as calls of the main context,   *)
(* statement by statement, on any of the modelled channels, one call after *)
(* the other.                                                              *)
(***************************************************************************)
NextDisable ==
    \/ \E c \in Channels : call(c, "enable")
    \/ \E c \in Channels : call(c, "disable")
    \/ enable_step
    \/ disable_step

SpecDisable == Init /\ [][NextDisable]_vars

\* The statement of disable() that writes TDIS to the control register.
WritesTDIS == disable_step /\ main.at = 5

\* C24: disable() on an enabled channel performs its steps in the order
\* transfer-disable, clock release, mark disabled: TDIS is written to the
\* channel's control register while the PDCA clock is still running, also
\* when the channel is the last enabled one and the release turns the clock
\* off.
C24_TdisWhileClockRunning ==
    [][WritesTDIS => ClockRunning /\ NUM_ENABLED = main.num_enabled]_vars

(***************************************************************************)
(* Specification of the completion callback: initialize with either of two *)
(* clients, enable, do_xfer, the hardware's progress and the interrupt     *)
(* handler on the driven channel.                                          *)
(***************************************************************************)
\* The clients two capsules install one after the other.
TwoClients == {1, 2}

NextCallback ==
    \/ \E c \in XferChans, cl \in TwoClients, w \in DMAWidth : initialize(c, cl, w)
    \/ \E c \in XferChans : enable(c)
    \/ \E c \in XferChans, pid \in Pids, buf \in Bufs, len \in 0 .. MaxLen :
          do_xfer(c, pid, buf, len)
    \/ \E c \in XferChans : HwTransfer(c)
    \/ \E c \in XferChans : handle_interrupt(c)

SpecCallback == Init /\ [][NextCallback]_vars

\* C25: handle_interrupt() masks all three channel interrupts and invokes
\* xfer_done exactly once, on the client installed by the most recent
\* initialize() and with the peripheral id given to the most recent
\* prepare_xfer on the channel; on a channel with no client it invokes no
\* callback and fails in no way.  After a second initialize() only the new
\* client is called.
C25_CallbackOnceOnLatestClient ==
    [][\A c \in XferChans :
          handle_interrupt(c) =>
             /\ DMA_CHANNELS'[c].registers.imr = {}
             /\ ~panicked'
             /\ hist'[c].done =
                   IF hist[c].client = 0
                   THEN <<>>
                   ELSE <<[client |-> hist[c].client, pid |-> hist[c].pid]>>]_vars

\* The handler has called xfer_done on the second client, reporting a
\* peripheral other than the reset value of PSR, with all interrupts masked.
C25_Witness ==
    \E c \in XferChans :
        /\ hist[c].done = <<[client |-> 2, pid |-> USART0_TX]>>
        /\ hist[c].client = 2
        /\ hist[c].pid = USART0_TX
        /\ DMA_CHANNELS[c].registers.imr = {}

(***************************************************************************)
(* Specification of a transfer's progress: initialize, enable, do_xfer on  *)
(* an enabled channel that holds no buffer, the hardware's progress and    *)
(* the interrupt handler; neither abort_xfer nor disable is called by the  *)
(* main context.  The hardware eventually moves the next unit of an        *)
(* enabled transfer and a raised interrupt is eventually serviced.         *)
(***************************************************************************)
NextLive ==
    \/ \E c \in XferChans, cl \in Clients, w \in DMAWidth : initialize(c, cl, w)
    \/ \E c \in XferChans : enable(c)
    \/ \E c \in XferChans, pid \in Pids, buf \in Bufs, len \in 0 .. MaxLen :
          Operational(c) /\ DMA_CHANNELS[c].buffer = NoBuf /\ do_xfer(c, pid, buf, len)
    \/ \E c \in XferChans : HwTransfer(c)
    \/ \E c \in XferChans : handle_interrupt(c)

Fairness ==
    \A c \in XferChans : WF_vars(HwTransfer(c)) /\ WF_vars(handle_interrupt(c))

SpecLive == Init /\ [][NextLive]_vars /\ Fairness

\* The states of a channel's life: Enabled (operational, no buffer held, no
\* unit left to move), Completed (the transfer is done, its buffer held).
StateEnabled(c) ==
    /\ Operational(c)
    /\ DMA_CHANNELS[c].buffer = NoBuf
    /\ ~InFlight(c)
StateCompleted(c) ==
    /\ Operational(c)
    /\ DMA_CHANNELS[c].buffer # NoBuf
    /\ isr_TRC(DMA_CHANNELS[c].registers)

\* C26: on an enabled channel with a client installed, a do_xfer with a
\* non-zero effective length that is followed by neither abort_xfer, disable
\* nor another prepare eventually leads to the client's xfer_done being
\* invoked; the handler runs on the Completed channel, and the channel is back
\* in Enabled once the client has reclaimed the buffer.
C26_TransferCompletes ==
    /\ \A c \in XferChans :
          (Operational(c) /\ DMA_CHANNELS[c].client # 0 /\ Active(c))
              ~> (hist[c].done # <<>>)
    /\ [][\A c \in XferChans :
             (Operational(c) /\ DMA_CHANNELS[c].client # 0 /\ handle_interrupt(c))
             => /\ StateCompleted(c)
                /\ DMA_CHANNELS'[c].buffer = NoBuf => StateEnabled(c)']_vars

\* A transfer of one unit has run to completion, xfer_done has been invoked
\* and the client has reclaimed the buffer: the channel is Enabled again.
C26_Witness ==
    \E c \in XferChans :
        /\ hist[c].done # <<>>
        /\ hist[c].nret = 1
        /\ hist[c].submitted.addr \in callers
        /\ DMA_CHANNELS[c].registers.mar = hist[c].submitted.addr
        /\ StateEnabled(c)

(***************************************************************************)
(* prepare_xfer statement by statement, in the main context, with the      *)
(* channel's interrupt handler running between any two statements.         *)
(***************************************************************************)
call_prepare_xfer(c, pid, buf, len) ==
    /\ ~panicked
    /\ main.op = "idle"
    /\ buf.addr \in callers
    /\ callers' = callers \ {buf.addr}
    /\ main' = [op |-> "prepare_xfer", ch |-> c, at |-> 1, num_enabled |-> 0,
                pid |-> pid, buf |-> buf, len |-> len]
    /\ hist' = [hist EXCEPT ![c].pid = pid]
    /\ UNCHANGED <<DMA_CHANNELS, NUM_ENABLED, pm_clock, panicked>>

prepare_xfer_step ==
    /\ ~panicked
    /\ main.op = "prepare_xfer"
    /\ LET c == main.ch
       IN CASE main.at = 1 ->      \* len = cmp::min(len, maxlen); mr.write(SIZE)
                 /\ DMA_CHANNELS' =
                      [DMA_CHANNELS EXCEPT
                         ![c].registers = mr_write(@, DMA_CHANNELS[c].width)]
                 /\ main' = [main EXCEPT
                      !.at = 2,
                      !.len = Min(@, main.buf.len
                                       \div width_bytes(DMA_CHANNELS[c].width))]
                 /\ UNCHANGED <<panicked, hist>>
            [] main.at = 2 ->      \* registers.psr.set(pid)
                 /\ DMA_CHANNELS' =
                      [DMA_CHANNELS EXCEPT ![c].registers = psr_set(@, main.pid)]
                 /\ main' = [main EXCEPT !.at = 3]
                 /\ UNCHANGED <<panicked, hist>>
            [] main.at = 3 ->      \* registers.marr.write(&buf[0] ..)
                 IF main.buf.len = 0
                 THEN /\ panicked' = TRUE
                      /\ UNCHANGED <<DMA_CHANNELS, main, hist>>
                 ELSE /\ DMA_CHANNELS' =
                           [DMA_CHANNELS EXCEPT
                              ![c].registers = marr_write(@, main.buf.addr)]
                      /\ main' = [main EXCEPT !.at = 4]
                      /\ UNCHANGED <<panicked, hist>>
            [] main.at = 4 ->      \* registers.tcrr.write(TCV.val(len))
                 /\ DMA_CHANNELS' =
                      [DMA_CHANNELS EXCEPT ![c].registers = tcrr_write(@, main.len)]
                 /\ main' = [main EXCEPT !.at = 5]
                 /\ UNCHANGED <<panicked, hist>>
            [] main.at = 5 ->      \* registers.ier.write(Interrupt::TRC::SET)
                 /\ DMA_CHANNELS' =
                      [DMA_CHANNELS EXCEPT ![c].registers = ier_write(@, {"TRC"})]
                 /\ main' = [main EXCEPT !.at = 6]
                 /\ UNCHANGED <<panicked, hist>>
            [] main.at = 6 ->      \* self.buffer.replace(buf)
                 /\ DMA_CHANNELS' = [DMA_CHANNELS EXCEPT ![c].buffer = main.buf]
                 /\ hist' = [hist EXCEPT ![c] = hist_submit(@, main.buf)]
                 /\ main' = Idle
                 /\ UNCHANGED panicked
    /\ UNCHANGED <<NUM_ENABLED, pm_clock, callers>>

NextPrepare ==
    \/ \E c \in XferChans, cl \in Clients, w \in DMAWidth : initialize(c, cl, w)
    \/ \E c \in XferChans : main.op = "idle" /\ enable(c)
    \/ \E c \in XferChans, pid \in Pids, buf \in Bufs, len \in 0 .. MaxLen :
          call_prepare_xfer(c, pid, buf, len)
    \/ prepare_xfer_step
    \/ \E c \in XferChans : start_xfer(c)
    \/ \E c \in XferChans : HwTransfer(c)
    \/ \E c \in XferChans : handle_interrupt_at(c)

SpecPrepare == Init /\ [][NextPrepare]_vars

\* The buffer of the prepare_xfer that armed the completion interrupt: the
\* one of the call in progress once it has written IER, else the one of the
\* last call that returned.
ArmedBuffer(c) ==
    IF main.op = "prepare_xfer" /\ main.ch = c /\ main.at = 6
    THEN main.buf
    ELSE hist[c].submitted

\* C23: prepare_xfer stores the buffer in the channel's slot before it arms
\* the completion interrupt: whenever the interrupt is handled after it has
\* been armed, also while prepare_xfer is still executing, the slot holds the
\* submitted buffer, so that a client calling abort_xfer() from xfer_done
\* obtains it and the buffer is not stranded in the slot.
C23_BufferStoredBeforeArmed ==
    [][\A c \in XferChans :
          (/\ handle_interrupt_at(c)
           /\ DMA_CHANNELS[c].client # 0
           /\ (main.op = "idle" \/ (main.ch = c /\ main.at = 6)))
          => DMA_CHANNELS[c].buffer = ArmedBuffer(c)]_vars

(***************************************************************************)
(* Specification of the length clamp: a prepare_xfer call with arguments   *)
(* drawn from the bounded sets (and the largest count the 16-bit counter   *)
(* holds), on a channel whose width initialize set.                        *)
(***************************************************************************)
\* The largest count the TCV field holds.
TCV_MAX == Pow2(TCV_NUMBITS) - 1
ClampBufs == [addr : {1}, len : (0 .. MaxClampBufLen) \cup {TCV_MAX}]
ClampCalls ==
    [op : {"prepare_xfer"}, ch : XferChans, at : {0}, num_enabled : {0},
     pid : {USART0_TX}, buf : ClampBufs, len : (0 .. MaxClampLen) \cup {TCV_MAX}]

InitClamp ==
    /\ \E w \in DMAWidth :
          DMA_CHANNELS = [c \in Channels |->
                            IF c \in XferChans THEN [new EXCEPT !.width = w]
                                               ELSE new]
    /\ NUM_ENABLED = 0
    /\ pm_clock = ClocksOff
    /\ panicked = FALSE
    /\ callers = 1 .. NumBufs
    /\ hist = [c \in Channels |-> NoHist]
    /\ main \in ClampCalls

\* The prepare_xfer call the main context is about to make, made.
prepare_xfer_call ==
    /\ main.op = "prepare_xfer"
    /\ submit(main.ch, main.pid, main.buf, main.len, FALSE)
    /\ main' = [main EXCEPT !.op = "returned"]

NextClamp == prepare_xfer_call

SpecClamp == InitClamp /\ [][NextClamp]_vars

\* The count prepare_xfer programmed: still in TCRR or, TCR having been zero,
\* already taken over into TCR.
programmed(c) ==
    DMA_CHANNELS[c].registers.tcrr + DMA_CHANNELS[c].registers.tcr

DMA_BASE_ADDR == 1074405376     \* 0x400A2000
DMA_CHANNEL_SIZE == 64          \* 0x40
\* DMAChannelNum: DMAChannel00 = 0 .. DMAChannel15 = 15, one entry of
\* DMA_CHANNELS each.
NUM_DMA_CHANNELS == 16
DMAChannelNum == 0 .. (NUM_DMA_CHANNELS - 1)
\* #[repr(C)] struct DMARegisters: its fields and their sizes in bytes.
DMARegisters ==
    <<[field |-> "mar", bytes |-> 4], [field |-> "psr", bytes |-> 1],
      [field |-> "_psr_padding", bytes |-> 3], [field |-> "tcr", bytes |-> 4],
      [field |-> "marr", bytes |-> 4], [field |-> "tcrr", bytes |-> 4],
      [field |-> "cr", bytes |-> 4], [field |-> "mr", bytes |-> 4],
      [field |-> "sr", bytes |-> 4], [field |-> "ier", bytes |-> 4],
      [field |-> "idr", bytes |-> 4], [field |-> "imr", bytes |-> 4],
      [field |-> "isr", bytes |-> 4]>>
RECURSIVE size_of(_)
size_of(fields) ==
    IF fields = <<>> THEN 0 ELSE Head(fields).bytes + size_of(Tail(fields))

\* DMAChannel::new with the blocks packed at half the channel size.
registers_ptr_half_stride(channel) ==
    DMA_BASE_ADDR + channel * (DMA_CHANNEL_SIZE \div 2)

\* DMAChannel::new: the registers pointer of a channel.
registers_ptr(channel) == DMA_BASE_ADDR + channel * DMA_CHANNEL_SIZE
\* The addresses of the channel's register block.
register_block(channel) ==
    registers_ptr(channel) .. (registers_ptr(channel) + size_of(DMARegisters) - 1)

(***************************************************************************)
(* Specification of two channels side by side: every operation of the      *)
(* driver on either of them, each to completion, and the hardware's        *)
(* progress, with the width, peripheral and len argument fixed.            *)
(***************************************************************************)
IsoChans == {0, 1}
IsoBufs == [addr : 1 .. NumBufs, len : {MaxBufLen}]

\* An operation of the driver on channel c.
OperationOn(c) ==
    \/ \E cl \in Clients : initialize(c, cl, Width8Bit)
    \/ enable(c) /\ main.op = "idle"
    \/ disable(c) /\ main.op = "idle"
    \/ \E buf \in IsoBufs : prepare_xfer(c, USART0_TX, buf, MaxLen)
    \/ start_xfer(c)
    \/ \E buf \in IsoBufs : do_xfer(c, USART0_TX, buf, MaxLen)
    \/ abort_xfer(c)
    \/ handle_interrupt(c)

NextIso ==
    \/ \E c \in IsoChans : OperationOn(c)
    \/ \E c \in IsoChans : HwTransfer(c)

SpecIso == Init /\ [][NextIso]_vars

\* C30: channels are isolated: every operation on channel i (initialize,
\* enable, disable, prepare_xfer, start_xfer, do_xfer, abort_xfer,
\* handle_interrupt; transfer_counter only reads) leaves the client, width,
\* enabled flag, buffer slot and registers of every other channel unchanged,
\* and so what transfer_counter reads there; and the 16 register blocks at
\* DMA_BASE_ADDR + i * 0x40 are pairwise disjoint.
C30_ChannelsIsolated ==
    /\ \A i \in DMAChannelNum, j \in DMAChannelNum :
          i # j => register_block(i) \cap register_block(j) = {}
    /\ [][\A i \in IsoChans :
             OperationOn(i) =>
                \A j \in Channels \ {i} :
                    /\ DMA_CHANNELS'[j] = DMA_CHANNELS[j]
                    /\ transfer_counter(j)' = transfer_counter(j)]_vars

\* Both channels hold a buffer of their own and have a transfer programmed,
\* one of them enabled after the other.
C30_Witness ==
    /\ NUM_ENABLED = 2
    /\ \A c \in IsoChans :
          /\ DMA_CHANNELS[c].enabled
          /\ DMA_CHANNELS[c].buffer # NoBuf
          /\ DMA_CHANNELS[c].registers.mar = DMA_CHANNELS[c].buffer.addr
          /\ DMA_CHANNELS[c].registers.ten
    /\ DMA_CHANNELS[0].buffer # DMA_CHANNELS[1].buffer

(***************************************************************************)
(* Specification of the length clamp around the width of the counter: a    *)
(* prepare_xfer call whose buffer length and len argument are small, just  *)
(* around 2^16 or just around 2^17.                                        *)
(***************************************************************************)
\* How far above 0, 2^16 - 1 and 2^17 - 1 the lengths go.
MaxWideExtra == 2
WideLens ==
    {base + k : base \in {0, TCV_MAX, 2 * TCV_MAX + 1}, k \in 0 .. MaxWideExtra}
WideCalls ==
    [op : {"prepare_xfer"}, ch : XferChans, at : {0}, num_enabled : {0},
     pid : {USART0_TX}, buf : [addr : {1}, len : WideLens], len : WideLens]

InitWide ==
    /\ \E w \in DMAWidth :
          DMA_CHANNELS = [c \in Channels |->
                            IF c \in XferChans THEN [new EXCEPT !.width = w]
                                               ELSE new]
    /\ NUM_ENABLED = 0
    /\ pm_clock = ClocksOff
    /\ panicked = FALSE
    /\ callers = 1 .. NumBufs
    /\ hist = [c \in Channels |-> NoHist]
    /\ main \in WideCalls

NextWide == prepare_xfer_call

SpecWide == InitWide /\ [][NextWide]_vars

\* C29: for every len and buffer, also when min(len, buf.len() / width_bytes)
\* is 65536 or more, the count prepare_xfer places in the 16-bit TCV field of
\* TCRR is min(len, buf.len() / width_bytes): the clamped length is not
\* reduced modulo 2^16.
C29_CountNotTruncated ==
    (main.op = "returned" /\ ~panicked) =>
        LET r == DMA_CHANNELS[main.ch].registers
            clamped == Min(main.len,
                           main.buf.len \div width_bytes(DMA_CHANNELS[main.ch].width))
        IN /\ r.marr = main.buf.addr
           /\ IF r.mar = main.buf.addr THEN r.tcr = clamped ELSE r.tcrr = clamped

(***************************************************************************)
(* Driver dispatch of the nrf52dk platform (boards/nrf52dk/src/main.rs):   *)
(* Platform::with_driver.                                                  *)
(***************************************************************************)
\* Largest driver number a system call is made with.
MaxDriverNum == 10
\* The fields of struct Platform, in the order of with_driver's match arms.
Capsules ==
    <<"console", "gpio", "alarm", "led", "button", "rng", "ble_radio", "temp", "ipc">>
\* The capsule reference each field of the platform holds.
Platform == [k \in {Capsules[i] : i \in DOMAIN Capsules} |-> <<"capsule", k>>]
\* capsules::<capsule>::DRIVER_NUM / kernel::ipc::DRIVER_NUM: statically
\* assigned ids, unique across the platform.
DRIVER_NUM ==
    [console |-> 0, gpio |-> 1, alarm |-> 2, led |-> 3, button |-> 4, rng |-> 5,
     ble_radio |-> 6, temp |-> 7, ipc |-> 8]

\* Option<&kernel::Driver>
None == [some |-> FALSE, driver |-> <<>>]
Some(d) == [some |-> TRUE, driver |-> d]
Options == {None} \cup {Some(Platform[Capsules[i]]) : i \in DOMAIN Capsules}
\* What a continuation returns.
Results == {"r0", "r1"}
\* The continuations f: FnOnce(Option<&kernel::Driver>) -> R.
Continuations == [Options -> Results]

\* f applied to arg: the invocation is recorded, the result handed on.
invoke(f, arg) == [ret |-> f[arg], calls |-> <<arg>>]

\* with_driver that has no arm for the IPC driver.
with_driver_no_ipc(self, driver_num, f) ==
    IF driver_num = DRIVER_NUM.console THEN invoke(f, Some(self.console))
    ELSE IF driver_num = DRIVER_NUM.gpio THEN invoke(f, Some(self.gpio))
    ELSE IF driver_num = DRIVER_NUM.alarm THEN invoke(f, Some(self.alarm))
    ELSE IF driver_num = DRIVER_NUM.led THEN invoke(f, Some(self.led))
    ELSE IF driver_num = DRIVER_NUM.button THEN invoke(f, Some(self.button))
    ELSE IF driver_num = DRIVER_NUM.rng THEN invoke(f, Some(self.rng))
    ELSE IF driver_num = DRIVER_NUM.ble_radio THEN invoke(f, Some(self.ble_radio))
    ELSE IF driver_num = DRIVER_NUM.temp THEN invoke(f, Some(self.temp))
    ELSE invoke(f, None)

\* Platform::with_driver: the match on driver_num, first matching arm.
with_driver(self, driver_num, f) ==
    IF driver_num = DRIVER_NUM.console THEN invoke(f, Some(self.console))
    ELSE IF driver_num = DRIVER_NUM.gpio THEN invoke(f, Some(self.gpio))
    ELSE IF driver_num = DRIVER_NUM.alarm THEN invoke(f, Some(self.alarm))
    ELSE IF driver_num = DRIVER_NUM.led THEN invoke(f, Some(self.led))
    ELSE IF driver_num = DRIVER_NUM.button THEN invoke(f, Some(self.button))
    ELSE IF driver_num = DRIVER_NUM.rng THEN invoke(f, Some(self.rng))
    ELSE IF driver_num = DRIVER_NUM.ble_radio THEN invoke(f, Some(self.ble_radio))
    ELSE IF driver_num = DRIVER_NUM.temp THEN invoke(f, Some(self.temp))
    ELSE IF driver_num = DRIVER_NUM.ipc THEN invoke(f, Some(self.ipc))
    ELSE invoke(f, None)

(***************************************************************************)
(* Specification of the dispatch: one with_driver call, its driver number  *)
(* and continuation drawn from the bounded sets.                           *)
(***************************************************************************)
DriverCalls ==
    [op : {"with_driver"}, ch : {0}, at : {0}, num_enabled : {0},
     self : {Platform}, driver_num : 0 .. MaxDriverNum, f : Continuations,
     ret : {"none"}, calls : {<<>>}]

InitDriver ==
    /\ DMA_CHANNELS = [c \in Channels |-> new]
    /\ NUM_ENABLED = 0
    /\ pm_clock = ClocksOff
    /\ panicked = FALSE
    /\ callers = 1 .. NumBufs
    /\ hist = [c \in Channels |-> NoHist]
    /\ main \in DriverCalls

\* The with_driver call the main context is about to make, made.
with_driver_call ==
    /\ main.op = "with_driver"
    /\ LET r == with_driver(main.self, main.driver_num, main.f)
       IN main' = [main EXCEPT !.op = "returned", !.ret = r.ret, !.calls = r.calls]
    /\ UNCHANGED <<DMA_CHANNELS, NUM_ENABLED, pm_clock, panicked, callers, hist>>

NextDriver == with_driver_call

SpecDriver == InitDriver /\ [][NextDriver]_vars

DriverIds == {DRIVER_NUM[Capsules[i]] : i \in DOMAIN Capsules}

\* C14: with_driver(driver_num, f) invokes f exactly once: with the capsule
\* registered for the id when driver_num is one of the platform's nine driver
\* ids, with None for every other driver_num; it returns f's result unchanged
\* and leaves the platform as it was.
C14_DispatchOnce ==
    main.op = "returned" =>
        /\ Len(main.calls) = 1
        /\ \A i \in DOMAIN Capsules :
              main.driver_num = DRIVER_NUM[Capsules[i]]
                  => main.calls[1] = Some(Platform[Capsules[i]])
        /\ main.driver_num \notin DriverIds => main.calls[1] = None
        /\ main.ret = main.f[main.calls[1]]
        /\ main.self = Platform

\* with_driver has returned for the IPC driver's id, the last arm of the
\* match, with a continuation that tells the IPC capsule from no capsule.
C14_Witness ==
    /\ main.op = "returned"
    /\ main.driver_num = DRIVER_NUM.ipc
    /\ main.f[Some(Platform.ipc)] # main.f[None]
    /\ main.ret = main.f[Some(Platform.ipc)]
    /\ main.calls = <<Some(Platform.ipc)>>

(***************************************************************************)
(* DMAPeripheral (chips/sam4l/src/dma.rs): the enum of peripheral tags and *)
(* DMAPeripheral::lookup, the way back from a u8.                          *)
(***************************************************************************)
\* Largest value of a u8, the type of lookup's argument.
U8_MAX == 255
\* The tags around the one gap of the enum, and its last tag.
CATB_RX == 12
IISC_CH0_RX == 14
UNUSED255 == 255
\* The numeric tags of the variants of #[repr(u8)] enum DMAPeripheral:
\* USART0_RX = 0 .. CATB_RX = 12 and IISC_CH0_RX = 14 .. UNUSED255 = 255.
DMAPeripheralTags == (USART0_RX .. CATB_RX) \cup (IISC_CH0_RX .. UNUSED255)
\* The variant with tag n, and `variant as u8`.
variant(n) == <<"DMAPeripheral", n>>
as_u8(v) == v[2]
\* The numbers lookup's match has an arm for (0 ..= 12 and 14 ..= 255), each
\* giving the variant of that tag.
LookupArms == (0 .. 12) \cup (14 .. 255)

\* DMAPeripheral::lookup: the arm of num, or `_ => UNUSED255`.
lookup(num) ==
    IF num \in LookupArms THEN variant(num) ELSE variant(UNUSED255)

(***************************************************************************)
(* Specification of lookup: one call, for any u8.                          *)
(***************************************************************************)
LookupCalls ==
    [op : {"lookup"}, ch : {0}, at : {0}, num_enabled : {0},
     num : 0 .. U8_MAX, ret : {<<>>}]

InitLookup ==
    /\ DMA_CHANNELS = [c \in Channels |-> new]
    /\ NUM_ENABLED = 0
    /\ pm_clock = ClocksOff
    /\ panicked = FALSE
    /\ callers = 1 .. NumBufs
    /\ hist = [c \in Channels |-> NoHist]
    /\ main \in LookupCalls

\* The lookup call the main context is about to make, made.
lookup_call ==
    /\ main.op = "lookup"
    /\ main' = [main EXCEPT !.op = "returned", !.ret = lookup(main.num)]
    /\ UNCHANGED <<DMA_CHANNELS, NUM_ENABLED, pm_clock, panicked, callers, hist>>

NextLookup == lookup_call

SpecLookup == InitLookup /\ [][NextLookup]_vars

\* C15: DMAPeripheral is closed over a byte and round-trips through the u8:
\* for every n in 0..=255 there is a variant with tag n, and lookup(n) as u8
\* is n.
C15_LookupRoundTrip ==
    main.op = "returned" =>
        /\ main.num \in DMAPeripheralTags
        /\ as_u8(main.ret) = main.num

(***************************************************************************)
(* elf2tbf (userland/tools/elf2tbf/src/main.rs): do_work, the layout of a  *)
(* TBF image and the values of its headers.                                *)
(*                                                                         *)
(* A u32 is kept as two 16-bit limbs [hi, lo], so that sums past 2^32 and  *)
(* their wrap-around are exact; a u64 section size is the same record with *)
(* a hi limb that may exceed 16 bits.  usize values of the layout (all far *)
(* below 2^31 here) are plain integers.                                    *)
(***************************************************************************)
LIMB == Pow2(16)
\* The u32 / u64 of value n, for an integer n.
Wide(n) == [hi |-> n \div LIMB, lo |-> n % LIMB]
\* `x as u32`: the low 32 bits.
as_u32(w) == [hi |-> w.hi % LIMB, lo |-> w.lo]
\* The exact sum of two values.
wide_add(a, b) ==
    [hi |-> a.hi + b.hi + ((a.lo + b.lo) \div LIMB), lo |-> (a.lo + b.lo) % LIMB]
\* a + b on u32 as a release build computes it (wrapping); a debug build
\* panics when the sum does not fit.
u32_add(a, b) == as_u32(wide_add(a, b))
u32_add_overflows(a, b) == wide_add(a, b).hi >= LIMB
\* The integer a u32 below 2^31 stands for.
u32_val(u) == u.hi * LIMB + u.lo

\* align4needed!(n): the bytes that pad n up to a multiple of 4.
align4needed(n) == (4 - (n % 4)) % 4

\* mem::size_of::<Crt0Header>(): ten u32 fields.
SIZE_OF_CRT0HEADER == 40
\* mem::size_of::<u32>()
SIZE_OF_U32 == 4

\* usize::count_ones and 32 - u32::leading_zeros (the number of bits of n).
RECURSIVE count_ones(_)
count_ones(n) == IF n = 0 THEN 0 ELSE (n % 2) + count_ones(n \div 2)
RECURSIVE bit_length(_)
bit_length(n) == IF n = 0 THEN 0 ELSE 1 + bit_length(n \div 2)
leading_zeros(n) == 32 - bit_length(n)
Max(a, b) == IF a > b THEN a ELSE b

\* The locals of do_work, as functions of its input i: the command line's
\* stack_len, app_heap_len, kernel_heap_len and include_crt0_header, the
\* ELF file's entry and sections (shdr.size, shdr.addr, data.len()) and the
\* header length TbfHeader::create returns.
got_size(i) == as_u32(i.got.size)
data_size(i) == as_u32(i.data.size)
bss_size(i) == as_u32(i.bss.size)

\* The operands of the sum `stack_len + app_heap_len + kernel_heap_len +
\* got_size + data_size + bss_size`, in order.
ram_terms(i) ==
    <<i.stack_len, i.app_heap_len, i.kernel_heap_len, got_size(i), data_size(i),
      bss_size(i)>>
RECURSIVE u32_sum(_)
u32_sum(ts) ==
    IF Len(ts) = 1 THEN ts[1]
    ELSE u32_add(u32_sum(SubSeq(ts, 1, Len(ts) - 1)), ts[Len(ts)])
\* One of the additions of the sum does not fit a u32.
RECURSIVE u32_sum_overflows(_)
u32_sum_overflows(ts) ==
    IF Len(ts) = 1 THEN FALSE
    ELSE \/ u32_sum_overflows(SubSeq(ts, 1, Len(ts) - 1))
         \/ u32_add_overflows(u32_sum(SubSeq(ts, 1, Len(ts) - 1)), ts[Len(ts)])
minimum_ram_size(i) == u32_sum(ram_terms(i))

header_length(i) == i.header_length
\* The length of the bytes tbfheader.generate() returns.
generated_length(i) == i.generated_length
app_start(i) == header_length(i)
appstate_offset(i) ==
    app_start(i) + (IF i.include_crt0_header THEN SIZE_OF_CRT0HEADER ELSE 0)
\* appstate.shdr.size as usize
appstate_size(i) == u32_val(i.appstate.size)
post_appstate_pad(i) == align4needed(appstate_size(i))

\* do_work that does not pad the .app_state section.
section_start_text_unpadded(i) == appstate_offset(i) + appstate_size(i)

section_start_text(i) ==
    appstate_offset(i) + appstate_size(i) + post_appstate_pad(i)
section_start_got(i) ==
    section_start_text(i) + i.text.len + align4needed(i.text.len)
section_start_data(i) ==
    section_start_got(i) + i.got.len + align4needed(i.got.len)
section_start_reldata(i) ==
    section_start_data(i) + i.data.len + align4needed(i.data.len)
\* do_work that leaves the length word of the rel_data out of binary_index.
content_end_without_length_word(i) ==
    section_start_reldata(i) + i.rel_data.len + align4needed(i.rel_data.len)

\* binary_index after the rel_data and its length word: the unpadded content.
content_end(i) ==
    section_start_reldata(i) + i.rel_data.len + align4needed(i.rel_data.len)
        + SIZE_OF_U32

post_content_pad(i) ==
    LET binary_index == content_end(i)
    IN IF count_ones(binary_index) > 1
       THEN LET power2len == Max(Pow2(32 - leading_zeros(binary_index)), 512)
            IN power2len - binary_index
       ELSE 0
total_size(i) == content_end(i) + post_content_pad(i)

\* RAM memory layout
ram_section_start_got(i) == Wide(0)
ram_section_start_data(i) == u32_add(ram_section_start_got(i), got_size(i))
\* do_work that starts .bss where .data starts.
ram_section_start_bss_at_data(i) == ram_section_start_data(i)
ram_section_start_bss(i) == u32_add(ram_section_start_data(i), data_size(i))

\* do_work that takes the flash offsets of the crt0 header from the start of
\* the image.
crtheader_from_image_start(i) ==
    [got_sym_start |-> as_u32(Wide(section_start_got(i))),
     got_start |-> ram_section_start_got(i),
     got_size |-> got_size(i),
     data_sym_start |-> as_u32(Wide(section_start_data(i))),
     data_start |-> ram_section_start_data(i),
     data_size |-> data_size(i),
     bss_start |-> ram_section_start_bss(i),
     bss_size |-> bss_size(i),
     reldata_start |-> as_u32(Wide(section_start_reldata(i))),
     text_offset |-> as_u32(Wide(section_start_text(i)))]

crtheader(i) ==
    [got_sym_start |-> as_u32(Wide(section_start_got(i) - app_start(i))),
     got_start |-> ram_section_start_got(i),
     got_size |-> got_size(i),
     data_sym_start |-> as_u32(Wide(section_start_data(i) - app_start(i))),
     data_start |-> ram_section_start_data(i),
     data_size |-> data_size(i),
     bss_start |-> ram_section_start_bss(i),
     bss_size |-> bss_size(i),
     reldata_start |-> as_u32(Wide(section_start_reldata(i) - app_start(i))),
     text_offset |-> as_u32(Wide(section_start_text(i) - app_start(i)))]

\* do_work that takes the offset of .text from the start of the image.
init_fn_offset_from_image_start(i) ==
    u32_add(as_u32(Wide(i.entry - i.text.addr)),
            as_u32(Wide(section_start_text(i))))

init_fn_offset(i) ==
    u32_add(as_u32(Wide(i.entry - i.text.addr)),
            as_u32(Wide(section_start_text(i) - app_start(i))))

\* do_work that writes .got (and its pad) before .text.
writes_got_before_text(i) ==
    <<[part |-> "tbfheader", len |-> generated_length(i)],
      [part |-> "crt0", len |-> IF i.include_crt0_header THEN SIZE_OF_CRT0HEADER ELSE 0],
      [part |-> "appstate", len |-> i.appstate.len],
      [part |-> "pad", len |-> post_appstate_pad(i)],
      [part |-> "got", len |-> i.got.len],
      [part |-> "pad", len |-> align4needed(i.got.len)],
      [part |-> "text", len |-> i.text.len],
      [part |-> "pad", len |-> align4needed(i.text.len)],
      [part |-> "data", len |-> i.data.len],
      [part |-> "pad", len |-> align4needed(i.data.len)],
      [part |-> "rel_data_len", len |-> SIZE_OF_U32],
      [part |-> "rel_data", len |-> i.rel_data.len],
      [part |-> "pad", len |-> align4needed(i.rel_data.len)],
      [part |-> "pad", len |-> post_content_pad(i)]>>

\* The write_all / do_pad calls of do_work, in order: what is written and
\* how many bytes.  The crt0 header is written only when requested.
writes(i) ==
    <<[part |-> "tbfheader", len |-> generated_length(i)],
      [part |-> "crt0", len |-> IF i.include_crt0_header THEN SIZE_OF_CRT0HEADER ELSE 0],
      [part |-> "appstate", len |-> i.appstate.len],
      [part |-> "pad", len |-> post_appstate_pad(i)],
      [part |-> "text", len |-> i.text.len],
      [part |-> "pad", len |-> align4needed(i.text.len)],
      [part |-> "got", len |-> i.got.len],
      [part |-> "pad", len |-> align4needed(i.got.len)],
      [part |-> "data", len |-> i.data.len],
      [part |-> "pad", len |-> align4needed(i.data.len)],
      [part |-> "rel_data_len", len |-> SIZE_OF_U32],
      [part |-> "rel_data", len |-> i.rel_data.len],
      [part |-> "pad", len |-> align4needed(i.rel_data.len)],
      [part |-> "pad", len |-> post_content_pad(i)]>>
\* The offset in the output at which the k-th write starts.
RECURSIVE write_offset(_, _)
write_offset(ws, k) == IF k = 1 THEN 0 ELSE write_offset(ws, k - 1) + ws[k - 1].len
\* The offset in the output at which the bytes of a part are written.
written_at(i, part) ==
    LET ws == writes(i)
        k == CHOOSE n \in DOMAIN ws : ws[n].part = part
    IN write_offset(ws, k)
\* The length of the output.
written_len(i) == write_offset(writes(i), Len(writes(i)) + 1)

\* What do_work produces: the TBF header's values, the crt0 header when one
\* is written, and the offset in the image at which each part is written.
do_work(i) ==
    [tbfheader |->
        [minimum_ram_size |-> minimum_ram_size(i),
         total_size |-> as_u32(Wide(total_size(i))),
         init_fn_offset |-> init_fn_offset(i),
         appstate_offset |-> as_u32(Wide(appstate_offset(i))),
         appstate_size |-> as_u32(Wide(appstate_size(i)))],
     crt0 |-> IF i.include_crt0_header THEN <<crtheader(i)>> ELSE <<>>,
     image |->
        [app_start |-> app_start(i),
         appstate |-> appstate_offset(i),
         text |-> section_start_text(i),
         got |-> section_start_got(i),
         data |-> section_start_data(i),
         rel_data_len |-> section_start_reldata(i),
         content_end |-> content_end(i),
         end |-> total_size(i)],
     written |->
        [crt0 |-> written_at(i, "crt0"),
         appstate |-> written_at(i, "appstate"),
         text |-> written_at(i, "text"),
         got |-> written_at(i, "got"),
         data |-> written_at(i, "data"),
         rel_data_len |-> written_at(i, "rel_data_len"),
         rel_data |-> written_at(i, "rel_data"),
         len |-> written_len(i)]]

(***************************************************************************)
(* Specifications of elf2tbf: one run of do_work.  A debug build panics on *)
(* an addition that overflows, a release build wraps.  SpecTbf draws the   *)
(* layout's inputs from the bounded sets, SpecRam the memory sizes         *)
(* (bounded values and the values around 2^31 and 2^32).                   *)
(***************************************************************************)
MaxHeaderWords == 19
MaxAppStateLen == 5
MaxTextLen == 180
MaxGotLen == 2
MaxDataLen == 3
MaxBssLen == 6
MaxRelDataLen == 8
MaxTextAddr == 16
MaxEntryOff == 9
MaxRamArg == 2048

\* A section: shdr.size, shdr.addr and data.len().  .bss has no data.
Section(n) == [size |-> Wide(n), addr |-> 0, len |-> n]
NoBits(n) == [size |-> Wide(n), addr |-> 0, len |-> 0]

TbfInputs ==
    {[stack_len |-> Wide(2048), app_heap_len |-> Wide(1024),
      kernel_heap_len |-> Wide(1024),
      include_crt0_header |-> crt0, header_length |-> 4 * hw,
      generated_length |-> 4 * hw,
      appstate |-> Section(as), text |-> [Section(tx) EXCEPT !.addr = ta],
      got |-> Section(g), data |-> Section(d), bss |-> NoBits(b),
      rel_data |-> Section(r), entry |-> ta + eo] :
        crt0 \in BOOLEAN, hw \in (MaxHeaderWords - 1) .. MaxHeaderWords,
        as \in {0, MaxAppStateLen}, tx \in 0 .. MaxTextLen, ta \in {MaxTextAddr},
        g \in {0, MaxGotLen}, d \in {0, MaxDataLen}, b \in {MaxBssLen},
        r \in {0, MaxRelDataLen}, eo \in {0, MaxEntryOff}}

\* 2^31, 2^32 - 1 and 2^32.
U32_HALF == [hi |-> LIMB \div 2, lo |-> 0]
U32_MAX == [hi |-> LIMB - 1, lo |-> LIMB - 1]
U64_2_32 == [hi |-> LIMB, lo |-> 0]
RamArgs == {Wide(0), Wide(1), Wide(MaxRamArg), U32_HALF, U32_MAX}

RamInputs ==
    {[stack_len |-> st, app_heap_len |-> ah, kernel_heap_len |-> kh,
      include_crt0_header |-> TRUE, header_length |-> 4 * MaxHeaderWords,
      generated_length |-> 4 * MaxHeaderWords,
      appstate |-> Section(0), text |-> Section(MaxTextLen),
      got |-> [Section(0) EXCEPT !.size = g],
      data |-> [Section(0) EXCEPT !.size = d],
      bss |-> [NoBits(0) EXCEPT !.size = b],
      rel_data |-> Section(0), entry |-> 0] :
        st \in RamArgs, ah \in RamArgs, kh \in RamArgs,
        g \in {Wide(0), Wide(MaxGotLen)}, d \in {Wide(0), Wide(MaxDataLen)},
        b \in {Wide(0), Wide(MaxBssLen), U64_2_32}}

DoWorkCalls(inputs) ==
    [op : {"do_work"}, ch : {0}, at : {0}, num_enabled : {0},
     input : inputs, out : {<<>>}]

InitElf2tbf(inputs) ==
    /\ DMA_CHANNELS = [c \in Channels |-> new]
    /\ NUM_ENABLED = 0
    /\ pm_clock = ClocksOff
    /\ panicked = FALSE
    /\ callers = 1 .. NumBufs
    /\ hist = [c \in Channels |-> NoHist]
    /\ main \in DoWorkCalls(inputs)

\* The run of do_work, made: it returns Ok(()) with the image written, or
\* (debug build) panics on an overflowing addition.
do_work_call ==
    /\ main.op = "do_work"
    /\ \E build \in {"debug", "release"} :
          IF build = "debug" /\ u32_sum_overflows(ram_terms(main.input))
          THEN main' = [main EXCEPT !.op = "panicked"]
          ELSE main' = [main EXCEPT !.op = "returned", !.out = do_work(main.input)]
    /\ UNCHANGED <<DMA_CHANNELS, NUM_ENABLED, pm_clock, panicked, callers, hist>>

InitTbf == InitElf2tbf(TbfInputs)
NextTbf == do_work_call
SpecTbf == InitTbf /\ [][NextTbf]_vars

\* Inputs whose .app_state data need not have the length its section header
\* gives, and whose generated TBF header need not have the length create()
\* returned.
SizeInputs ==
    {[stack_len |-> Wide(2048), app_heap_len |-> Wide(1024),
      kernel_heap_len |-> Wide(1024),
      include_crt0_header |-> crt0, header_length |-> 4 * MaxHeaderWords,
      generated_length |-> 4 * (MaxHeaderWords + extra),
      appstate |-> [Section(as) EXCEPT !.len = al],
      text |-> [Section(tx) EXCEPT !.addr = MaxTextAddr],
      got |-> Section(MaxGotLen), data |-> Section(MaxDataLen),
      bss |-> NoBits(MaxBssLen), rel_data |-> Section(r),
      entry |-> MaxTextAddr] :
        crt0 \in BOOLEAN, extra \in {0, 1},
        as \in {0, MaxAppStateLen}, al \in {0, MaxAppStateLen},
        tx \in 0 .. MaxTextLen, r \in {0, MaxRelDataLen}}

InitSizes == InitElf2tbf(SizeInputs)
NextSizes == do_work_call
SpecSizes == InitSizes /\ [][NextSizes]_vars

InitRam == InitElf2tbf(RamInputs)
NextRam == do_work_call
SpecRam == InitRam /\ [][NextRam]_vars

IsPowerOfTwo(n) == \E k \in 0 .. 30 : n = Pow2(k)

\* C16: for every input the total_size stored in the TBF header is a power of
\* two, at least 512 and a multiple of 4, also when the unpadded content size
\* is itself a power of two.
C16_TotalSizePowerOfTwo ==
    main.op = "returned" =>
        LET total == u32_val(main.out.tbfheader.total_size)
        IN /\ IsPowerOfTwo(total)
           /\ total >= 512
           /\ total % 4 = 0

\* C17: given a TBF header length that is a multiple of 4, for all section
\* sizes and both settings of the crt0 flag, every section start offset of
\* the image (app_state, .text, .got, .data, the rel.data length word) is a
\* multiple of 4.
C17_SectionOffsetsAligned ==
    (main.op = "returned" /\ main.input.header_length % 4 = 0) =>
        LET image == main.out.image
        IN /\ image.appstate % 4 = 0
           /\ image.text % 4 = 0
           /\ image.got % 4 = 0
           /\ image.data % 4 = 0
           /\ image.rel_data_len % 4 = 0

\* An image with a crt0 header whose .app_state, .text, .got and .data all
\* have lengths that are not multiples of 4 has been laid out.
C17_Witness ==
    /\ main.op = "returned"
    /\ main.input.include_crt0_header
    /\ main.input.appstate.len % 4 # 0
    /\ main.input.text.len % 4 # 0
    /\ main.input.got.len % 4 # 0
    /\ main.input.data.len % 4 # 0
    /\ main.out.image.rel_data_len >
          main.input.header_length + main.input.appstate.len + main.input.text.len
            + main.input.got.len + main.input.data.len

\* The exact sum of the six memory sizes: the command line's three and the
\* sizes of the .got, .data and .bss sections.
ExactRamSum(i) ==
    wide_add(wide_add(wide_add(wide_add(wide_add(
        i.stack_len, i.app_heap_len), i.kernel_heap_len),
        i.got.size), i.data.size), i.bss.size)

\* C18: for all 32-bit stack, app-heap and kernel-heap sizes and all section
\* sizes, the minimum RAM size placed in the TBF header is the arithmetic sum
\* stack + app_heap + kernel_heap + got_size + data_size + bss_size (no
\* wrap-around, no truncation).
C18_MinimumRamIsSum ==
    main.op = "returned" =>
        main.out.tbfheader.minimum_ram_size = ExactRamSum(main.input)

\* C19: init_fn_offset in the TBF header is (entry - text vaddr) + (start of
\* .text in the image - app_start), .text starting after the crt0 header, if
\* any, and the padded .app_state, if any; when the crt0 header is produced,
\* init_fn_offset = crt0.text_offset + (entry - text vaddr).
C19_InitFnOffset ==
    main.op = "returned" =>
        LET i == main.input
            out == main.out
            into_text == i.entry - i.text.addr
            init == u32_val(out.tbfheader.init_fn_offset)
        IN /\ init = into_text + (out.image.text - out.image.app_start)
           /\ init = into_text
                       + (IF i.include_crt0_header THEN SIZE_OF_CRT0HEADER ELSE 0)
                       + 4 * ((i.appstate.len + 3) \div 4)
           /\ out.crt0 # <<>> =>
                 init = u32_val(out.crt0[1].text_offset) + into_text

\* A crt0 header has been produced for an ELF with an .app_state section and
\* an entry point inside .text.
C19_Witness ==
    /\ main.op = "returned"
    /\ main.out.crt0 # <<>>
    /\ main.input.appstate.len > 0
    /\ main.input.entry > main.input.text.addr
    /\ u32_val(main.out.tbfheader.init_fn_offset)
          > u32_val(main.out.crt0[1].text_offset)
    /\ u32_val(main.out.crt0[1].text_offset) > SIZE_OF_CRT0HEADER

\* C20: the crt0 header describes a contiguous RAM layout: got_start = 0,
\* data_start = got_size, bss_start = got_size + data_size, the three sizes
\* being the sizes of the .got, .data and .bss sections, so that the three
\* ranges are adjacent in that order and end at the section part of
\* minimum_ram_size.
C20_RamLayoutContiguous ==
    (main.op = "returned" /\ main.out.crt0 # <<>>) =>
        LET i == main.input
            h == main.out.crt0[1]
            got == u32_val(i.got.size)
            data == u32_val(i.data.size)
            bss == u32_val(i.bss.size)
        IN /\ u32_val(h.got_start) = 0
           /\ u32_val(h.got_size) = got
           /\ u32_val(h.data_start) = got
           /\ u32_val(h.data_size) = data
           /\ u32_val(h.bss_start) = got + data
           /\ u32_val(h.bss_size) = bss
           /\ u32_val(h.bss_start) + u32_val(h.bss_size)
                 = u32_val(main.out.tbfheader.minimum_ram_size)
                     - (u32_val(i.stack_len) + u32_val(i.app_heap_len)
                          + u32_val(i.kernel_heap_len))

\* A crt0 header has been produced for an ELF whose .got, .data and .bss are
\* all non-empty: .data starts after .got, .bss after .data.
C20_Witness ==
    /\ main.op = "returned"
    /\ main.out.crt0 # <<>>
    /\ u32_val(main.out.crt0[1].got_size) > 0
    /\ u32_val(main.out.crt0[1].data_start) > 0
    /\ u32_val(main.out.crt0[1].bss_start) > u32_val(main.out.crt0[1].data_start)
    /\ u32_val(main.out.crt0[1].bss_size) > 0

\* C21: every flash offset of the crt0 header (got_sym_start, data_sym_start,
\* reldata_start, text_offset) is the distance from app_start, the first byte
\* after the TBF header, to the place in the emitted image where the section
\* is written (.rel.data begins with its length word), and with the crt0
\* header included each of these offsets is at least 40.
C21_FlashOffsetsFromAppStart ==
    (main.op = "returned" /\ main.out.crt0 # <<>>) =>
        LET h == main.out.crt0[1]
            app == main.input.header_length
            w == main.out.written
        IN /\ w.crt0 = app
           /\ app + u32_val(h.text_offset) = w.text
           /\ app + u32_val(h.got_sym_start) = w.got
           /\ app + u32_val(h.data_sym_start) = w.data
           /\ app + u32_val(h.reldata_start) = w.rel_data_len
           /\ w.rel_data = w.rel_data_len + SIZE_OF_U32
           /\ \A f \in {"text_offset", "got_sym_start", "data_sym_start", "reldata_start"} :
                 u32_val(h[f]) >= SIZE_OF_CRT0HEADER

\* A crt0 header has been written for an ELF with non-empty .app_state,
\* .text, .got, .data and .rel.data: the four flash offsets are all different
\* and .text does not start right after the crt0 header.
C21_Witness ==
    /\ main.op = "returned"
    /\ main.out.crt0 # <<>>
    /\ u32_val(main.out.crt0[1].text_offset) > SIZE_OF_CRT0HEADER
    /\ u32_val(main.out.crt0[1].got_sym_start) > u32_val(main.out.crt0[1].text_offset)
    /\ u32_val(main.out.crt0[1].data_sym_start) > u32_val(main.out.crt0[1].got_sym_start)
    /\ u32_val(main.out.crt0[1].reldata_start) > u32_val(main.out.crt0[1].data_sym_start)
    /\ main.out.written.len > main.out.written.rel_data + main.input.rel_data.len

\* The bytes a part of n bytes takes in the image with its padding to 4.
Padded(n) == n + align4needed(n)

\* C32: the image is laid out contiguously in the order TBF header, optional
\* 40-byte crt0 header, .app_state, .text, .got, .data, rel.data (u32 length
\* word, then the .rel.data bytes), trailing padding.  Each part starts where
\* the previous part and its padding to 4 bytes end, so no two parts overlap,
\* and each part is written at the offset computed for it: the writes are
\* made in the order of the offsets.
C32_LayoutContiguousInOrder ==
    main.op = "returned" =>
        LET i == main.input
            image == main.out.image
            w == main.out.written
            crt0_len == IF main.out.crt0 # <<>> THEN SIZE_OF_CRT0HEADER ELSE 0
        IN /\ image.app_start = i.header_length
           /\ image.appstate = image.app_start + crt0_len
           /\ image.text = image.appstate + Padded(i.appstate.len)
           /\ image.got = image.text + Padded(i.text.len)
           /\ image.data = image.got + Padded(i.got.len)
           /\ image.rel_data_len = image.data + Padded(i.data.len)
           /\ image.content_end =
                 image.rel_data_len + SIZE_OF_U32 + Padded(i.rel_data.len)
           /\ image.end >= image.content_end
           /\ w.crt0 = image.app_start
           /\ w.appstate = image.appstate
           /\ w.text = image.text
           /\ w.got = image.got
           /\ w.data = image.data
           /\ w.rel_data_len = image.rel_data_len
           /\ w.rel_data = image.rel_data_len + SIZE_OF_U32
           /\ w.appstate + i.appstate.len <= w.text
           /\ w.text + i.text.len <= w.got
           /\ w.got + i.got.len <= w.data
           /\ w.data + i.data.len <= w.rel_data_len
           /\ w.rel_data + i.rel_data.len <= image.content_end

\* An image without a crt0 header has been written whose .app_state, .text,
\* .got and .data are of lengths that need padding and whose .rel.data is
\* not empty, followed by trailing padding.
C32_Witness ==
    /\ main.op = "returned"
    /\ main.out.crt0 = <<>>
    /\ \A sec \in {"appstate", "text", "got", "data"} :
          align4needed(main.input[sec].len) > 0
    /\ main.input.rel_data.len > 0
    /\ main.out.written.appstate = main.input.header_length
    /\ main.out.written.rel_data > main.out.written.data + main.input.data.len
    /\ main.out.image.end > main.out.image.content_end

\* The data of every section do_work writes have the length the section's
\* header gives, and the generated TBF header has the length create()
\* returned.
SizesAgree(i) ==
    /\ \A sec \in {"appstate", "text", "got", "data", "rel_data"} :
          i[sec].len = u32_val(i[sec].size)
    /\ generated_length(i) = header_length(i)

\* C33: when each section's data length equals the size in its section
\* header and the generated TBF header has the length create() returned, the
\* number of bytes do_work writes on success is the total_size stored in the
\* TBF header, with and without the crt0 header.
C33_WrittenLengthIsTotalSize ==
    (main.op = "returned" /\ SizesAgree(main.input)) =>
        main.out.written.len = u32_val(main.out.tbfheader.total_size)

\* An image with a crt0 header, a non-empty .app_state, a .text that needs
\* padding and trailing padding has been written, sizes agreeing.
C33_Witness ==
    /\ main.op = "returned"
    /\ SizesAgree(main.input)
    /\ main.out.crt0 # <<>>
    /\ main.input.appstate.len > 0
    /\ align4needed(main.input.text.len) > 0
    /\ main.out.written.len > main.out.image.content_end
    /\ main.out.written.len >= 512

(***************************************************************************)
(* The trailing padding of do_work (lines 249-259) on content sizes up to  *)
(* 2^32 - 1, kept in limbs.  binary_index is a usize, of 32 or 64 bits as  *)
(* the host the tool is built for has it; a shift by the type's width or a *)
(* subtraction below zero panics in a debug build, and in a release build  *)
(* the shift amount is taken modulo the width and the difference wraps.    *)
(***************************************************************************)
MaxPadWords == 160

UsizeBits == {32, 64}
wide_count_ones(w) == count_ones(w.hi) + count_ones(w.lo)
\* 32 - (binary_index as u32).leading_zeros()
wide_bit_length(w) == IF w.hi > 0 THEN 16 + bit_length(w.hi) ELSE bit_length(w.lo)
\* 1 << k, for k up to 32
wide_shl1(k) == IF k < 16 THEN [hi |-> 0, lo |-> Pow2(k)] ELSE [hi |-> Pow2(k - 16), lo |-> 0]
wide_less(a, b) == a.hi < b.hi \/ (a.hi = b.hi /\ a.lo < b.lo)
wide_max(a, b) == IF wide_less(a, b) THEN b ELSE a
\* a - b; a negative hi limb when b exceeds a.
wide_sub(a, b) ==
    LET borrow == IF a.lo < b.lo THEN 1 ELSE 0
    IN [hi |-> a.hi - b.hi - borrow, lo |-> a.lo - b.lo + borrow * LIMB]
\* A usize of 32 bits wraps at 2^32.
usize_wrap(w, bits) == IF bits = 32 THEN as_u32(w) ELSE w

\* The shift amount of `1 << (32 - leading_zeros)` reaches the width of usize.
shift_overflows(binary_index, bits) ==
    wide_count_ones(binary_index) > 1 /\ wide_bit_length(binary_index) >= bits

\* post_content_pad and total_size of lines 252-259, as a release build
\* computes them.
trailing_pad(binary_index, bits) ==
    LET shift == wide_bit_length(binary_index) % bits
        power2len == wide_max(wide_shl1(shift), Wide(512))
        pad ==
            IF wide_count_ones(binary_index) > 1
            THEN usize_wrap(wide_sub(power2len, binary_index), bits)
            ELSE Wide(0)
    IN [post_content_pad |-> pad,
        total_size |-> usize_wrap(wide_add(binary_index, pad), bits)]

\* Content sizes: the multiples of 4 from a TBF header and the length word
\* of the rel_data up to 4 * MaxPadWords, and sizes at and above 2^31.
PadIndexes ==
    {Wide(4 * k) : k \in (MaxHeaderWords + 1) .. MaxPadWords}
        \cup {U32_HALF, wide_add(U32_HALF, Wide(4)), wide_sub(U32_MAX, Wide(3))}

PadCalls ==
    [op : {"trailing_pad"}, ch : {0}, at : {0}, num_enabled : {0},
     input : [binary_index : PadIndexes], out : {<<>>}]

InitPad ==
    /\ DMA_CHANNELS = [c \in Channels |-> new]
    /\ NUM_ENABLED = 0
    /\ pm_clock = ClocksOff
    /\ panicked = FALSE
    /\ callers = 1 .. NumBufs
    /\ hist = [c \in Channels |-> NoHist]
    /\ main \in PadCalls

trailing_pad_call ==
    /\ main.op = "trailing_pad"
    /\ \E bits \in UsizeBits, build \in {"debug", "release"} :
          IF build = "debug" /\ shift_overflows(main.input.binary_index, bits)
          THEN main' = [main EXCEPT !.op = "panicked",
                                    !.out = [bits |-> bits, shift_overflow |-> TRUE]]
          ELSE main' =
                 [main EXCEPT
                    !.op = "returned",
                    !.out = [bits |-> bits,
                             shift_overflow |->
                                 shift_overflows(main.input.binary_index, bits)]
                            @@ trailing_pad(main.input.binary_index, bits)]
    /\ UNCHANGED <<DMA_CHANNELS, NUM_ENABLED, pm_clock, panicked, callers, hist>>

NextPad == trailing_pad_call
SpecPad == InitPad /\ [][NextPad]_vars

\* C34: the trailing padding is minimal and never negative: for every
\* content size that fits 32 bits the shift does not overflow, and total_size
\* is the content size plus the padding and the smallest power of two that
\* is at least the content size and at least 512.
C34_TrailingPadMinimal ==
    main.op # "trailing_pad" =>
        /\ ~main.out.shift_overflow
        /\ main.op = "returned"
        /\ LET content == main.input.binary_index
               total == main.out.total_size
           IN /\ total = wide_add(content, main.out.post_content_pad)
              /\ ~wide_less(total, content)
              /\ \E k \in 9 .. 32 :
                    /\ total = wide_shl1(k)
                    /\ k > 9 => wide_less(wide_shl1(k - 1), content)

(***************************************************************************)
(* elf2tbf's main: the command line is parsed, the input ELF opened, the   *)
(* output file created and do_work run.  A panic ends the process with the *)
(* panic message on the error stream and the runtime's panic exit status;  *)
(* returning from main ends it with status 0.                              *)
(***************************************************************************)
EXIT_SUCCESS == 0
EXIT_PANIC == 101

\* The command line: -o, --stack, --app-heap and --kernel-heap (absent, a
\* decimal u32 or not a number), --crt0-header and the positional ELF path;
\* and the file system: whether the ELF can be read, the output file be
\* created and the writes to it succeed.
OptValues == {"absent", "2048", "x"}
CommandLines ==
    [o : BOOLEAN, stack : OptValues, app_heap : OptValues,
     kernel_heap : OptValues, crt0_header : BOOLEAN, free : BOOLEAN]
FileSystems == [elf_readable : BOOLEAN, creatable : BOOLEAN, writable : BOOLEAN]

\* opts.parse: every reqopt must be present.
parse_ok(args) ==
    /\ args.o
    /\ args.stack # "absent"
    /\ args.app_heap # "absent"
    /\ args.kernel_heap # "absent"
\* str::parse::<u32>() succeeds on a decimal number.
parse_u32_ok(v) == v = "2048"

\* The process after a panic, after print_usage and `return`, and after main
\* ran to its end.
\* created: File::create has made the output file, or truncated an existing
\* one.
panic_exit ==
    [exit |-> EXIT_PANIC, stderr |-> TRUE, stdout |-> FALSE, image |-> FALSE,
     created |-> FALSE]
usage_exit ==
    [exit |-> EXIT_SUCCESS, stderr |-> FALSE, stdout |-> TRUE, image |-> FALSE,
     created |-> FALSE]
ok_exit ==
    [exit |-> EXIT_SUCCESS, stderr |-> FALSE, stdout |-> FALSE, image |-> TRUE,
     created |-> TRUE]

\* main that creates the output file before it opens the input ELF.
elf2tbf_main_creates_first(args, fs) ==
    IF ~parse_ok(args) THEN panic_exit
    ELSE IF ~parse_u32_ok(args.stack) THEN panic_exit
    ELSE IF ~parse_u32_ok(args.app_heap) THEN panic_exit
    ELSE IF ~parse_u32_ok(args.kernel_heap) THEN panic_exit
    ELSE IF ~args.free THEN usage_exit
    ELSE IF ~args.o THEN panic_exit
    ELSE IF ~fs.creatable THEN panic_exit
    ELSE IF ~fs.elf_readable THEN [panic_exit EXCEPT !.created = TRUE]
    ELSE IF ~fs.writable THEN [panic_exit EXCEPT !.created = TRUE]
    ELSE ok_exit

\* main of elf2tbf.
elf2tbf_main(args, fs) ==
    IF ~parse_ok(args) THEN panic_exit                      \* panic!(f.to_string())
    ELSE IF ~parse_u32_ok(args.stack) THEN panic_exit       \* .parse::<u32>().unwrap()
    ELSE IF ~parse_u32_ok(args.app_heap) THEN panic_exit
    ELSE IF ~parse_u32_ok(args.kernel_heap) THEN panic_exit
    ELSE IF ~args.free THEN usage_exit                      \* print_usage(..); return
    ELSE IF ~fs.elf_readable THEN panic_exit                \* panic!("Error: {:?}", e)
    ELSE IF ~args.o THEN panic_exit                         \* panic!("Need to specify ..")
    ELSE IF ~fs.creatable THEN panic_exit                   \* panic!("Error: {:?}", e)
    ELSE IF ~fs.writable                                    \* .expect("Failed to write output")
         THEN [panic_exit EXCEPT !.created = TRUE]
    ELSE ok_exit

(***************************************************************************)
(* Specification of main: one run of the tool, for every command line and  *)
(* file system of the bounded sets.                                        *)
(***************************************************************************)
MainCalls ==
    [op : {"main"}, ch : {0}, at : {0}, num_enabled : {0},
     args : CommandLines, fs : FileSystems, out : {<<>>}]

InitMain ==
    /\ DMA_CHANNELS = [c \in Channels |-> new]
    /\ NUM_ENABLED = 0
    /\ pm_clock = ClocksOff
    /\ panicked = FALSE
    /\ callers = 1 .. NumBufs
    /\ hist = [c \in Channels |-> NoHist]
    /\ main \in MainCalls

\* The run of the tool, made.
main_call ==
    /\ main.op = "main"
    /\ main' = [main EXCEPT !.op = "exited", !.out = elf2tbf_main(main.args, main.fs)]
    /\ UNCHANGED <<DMA_CHANNELS, NUM_ENABLED, pm_clock, panicked, callers, hist>>

NextMain == main_call

SpecMain == InitMain /\ [][NextMain]_vars

\* The run succeeded: the options and the ELF path were given, the ELF was
\* read, the output created and written.
Succeeded(args, fs) ==
    /\ parse_ok(args)
    /\ parse_u32_ok(args.stack) /\ parse_u32_ok(args.app_heap)
    /\ parse_u32_ok(args.kernel_heap)
    /\ args.free
    /\ fs.elf_readable /\ fs.creatable /\ fs.writable

\* C22: the image builder exits with code 0 only on success: a missing
\* required option, a missing positional ELF path, an unreadable ELF, a
\* failure to create the output file and a write failure each end the
\* process with a nonzero exit status and a message on the error stream.
C22_ExitZeroOnlyOnSuccess ==
    main.op = "exited" =>
        IF Succeeded(main.args, main.fs)
        THEN main.out.exit = EXIT_SUCCESS /\ main.out.image
        ELSE main.out.exit # EXIT_SUCCESS /\ main.out.stderr

\* C36: the output file is created, or an existing one truncated, only after
\* option parsing, the parsing of the three sizes and the opening of the
\* input ELF have all succeeded: with a missing option, a size that is not a
\* number, no input path or an unreadable ELF, no output file is created or
\* modified.
C36_OutputCreatedLast ==
    main.op = "exited" =>
        (main.out.created =>
            /\ parse_ok(main.args)
            /\ parse_u32_ok(main.args.stack)
            /\ parse_u32_ok(main.args.app_heap)
            /\ parse_u32_ok(main.args.kernel_heap)
            /\ main.args.free
            /\ main.fs.elf_readable)

\* The tool has run with every option given and an output file that could
\* be created, on an ELF that cannot be read: it has exited with the panic
\* status and the output file is untouched.
C36_Witness ==
    /\ main.op = "exited"
    /\ Succeeded(main.args, [main.fs EXCEPT !.elf_readable = TRUE])
    /\ ~main.fs.elf_readable
    /\ main.out.exit = EXIT_PANIC
    /\ ~main.out.created

(***************************************************************************)
(* The writes of do_work, one at a time (lines 304-333).  Each write_all   *)
(* or do_pad call succeeds or fails as the output decides; try! returns    *)
(* the error of a failed call at once.  main unwraps do_work's result with *)
(* expect (line 65): an Err is a panic.                                    *)
(***************************************************************************)
MaxWriteTextLen == 2

\* The calls do_work makes: the crt0 header is written only when requested.
write_calls(i) ==
    IF i.include_crt0_header THEN writes(i)
    ELSE <<Head(writes(i))>> \o SubSeq(writes(i), 3, Len(writes(i)))

\* try! that drops the error of a failed call and goes on.
try_ignoring_error(w, part, ok) ==
    IF ok THEN [w EXCEPT !.written = Append(@, part)] ELSE w

\* try!(output.write_all(..)) / try!(util::do_pad(..)): the bytes are out, or
\* do_work returns the error.
try(w, part, ok) ==
    IF ok THEN [w EXCEPT !.written = Append(@, part)]
    ELSE [w EXCEPT !.result = "Err"]

WriteInputs ==
    {[stack_len |-> Wide(2048), app_heap_len |-> Wide(1024),
      kernel_heap_len |-> Wide(1024),
      include_crt0_header |-> crt0, header_length |-> 4 * MaxHeaderWords,
      generated_length |-> 4 * MaxHeaderWords,
      appstate |-> Section(0), text |-> Section(tx),
      got |-> Section(MaxGotLen), data |-> Section(MaxDataLen),
      bss |-> NoBits(MaxBssLen), rel_data |-> Section(MaxRelDataLen),
      entry |-> 0] :
        crt0 \in BOOLEAN, tx \in 0 .. MaxWriteTextLen}

Writing == [written |-> <<>>, result |-> "running", exit |-> EXIT_SUCCESS]

InitWrite ==
    /\ DMA_CHANNELS = [c \in Channels |-> new]
    /\ NUM_ENABLED = 0
    /\ pm_clock = ClocksOff
    /\ panicked = FALSE
    /\ callers = 1 .. NumBufs
    /\ hist = [c \in Channels |-> NoHist]
    /\ main \in [op : {"do_work"}, ch : {0}, at : {1}, num_enabled : {0},
                 input : WriteInputs, out : {Writing}]

\* The next write_all / do_pad call of do_work.
write_step ==
    /\ main.op = "do_work"
    /\ main.out.result = "running"
    /\ main.at <= Len(write_calls(main.input))
    /\ \E ok \in BOOLEAN :
          main' = [main EXCEPT
                     !.out = try(@, write_calls(main.input)[main.at].part, ok),
                     !.at = @ + 1]
    /\ UNCHANGED <<DMA_CHANNELS, NUM_ENABLED, pm_clock, panicked, callers, hist>>

\* do_work returns: the error try! passed on, or Ok(()) after the last call.
do_work_return ==
    /\ main.op = "do_work"
    /\ \/ main.out.result = "Err" /\ main' = [main EXCEPT !.op = "returned"]
       \/ /\ main.out.result = "running"
          /\ main.at > Len(write_calls(main.input))
          /\ main' = [main EXCEPT !.op = "returned", !.out.result = "Ok"]
    /\ UNCHANGED <<DMA_CHANNELS, NUM_ENABLED, pm_clock, panicked, callers, hist>>

\* .expect("Failed to write output") and the end of main.
main_expect ==
    /\ main.op = "returned"
    /\ main' = [main EXCEPT
                  !.op = "exited",
                  !.out.exit = IF main.out.result = "Ok" THEN EXIT_SUCCESS
                               ELSE EXIT_PANIC]
    /\ UNCHANGED <<DMA_CHANNELS, NUM_ENABLED, pm_clock, panicked, callers, hist>>

NextWrite == write_step \/ do_work_return \/ main_expect
SpecWrite == InitWrite /\ [][NextWrite]_vars

\* The parts of a complete image, in order.
AllParts(crt0) ==
    <<"tbfheader">> \o (IF crt0 THEN <<"crt0">> ELSE <<>>) \o
    <<"appstate", "pad", "text", "pad", "got", "pad", "data", "pad",
      "rel_data_len", "rel_data", "pad", "pad">>

\* C35: I/O errors are propagated.  Once a write has failed do_work makes no
\* further write and returns the error, and the process then exits nonzero;
\* do_work returns Ok only after the header, every section, every pad
\* between sections and the trailing pad have been written, and only then
\* the process exits with 0.
C35_WriteErrorsPropagated ==
    /\ [](main.out.result = "Ok" =>
             main.out.written = AllParts(main.input.include_crt0_header))
    /\ [](main.op = "exited" =>
             (main.out.exit = EXIT_SUCCESS <=> main.out.result = "Ok"))
    /\ [][/\ main.out.result = "Err" =>
               /\ main'.out.written = main.out.written
               /\ main'.out.result = "Err"
          /\ (main.out.result = "running" /\ main'.out.result = "Err") =>
               main'.out.written = main.out.written
          /\ main'.op = "returned" => main'.out.result \in {"Ok", "Err"}]_vars

\* The write of the .got section failed after the header, the crt0 header,
\* .app_state and .text had been written: nothing was written after it and
\* the process has exited with the panic status.
C35_Witness ==
    /\ main.op = "exited"
    /\ main.out.result = "Err"
    /\ main.out.exit = EXIT_PANIC
    /\ main.input.include_crt0_header
    /\ main.out.written = <<"tbfheader", "crt0", "appstate", "pad", "text", "pad">>

=============================================================================
